---- MODULE Spec2Model ----
(***************************************************************************)
(* Model of tests/chaos_engine.py: IntelligentLoadTester, its simulated    *)
(* user sessions (_simulate_single_user over _call_api), its detached      *)
(* chaos actions and the tick loop of run_chaos_test.                      *)
(*                                                                         *)
(* Scheduling is asyncio's: one event loop, cooperative tasks.  A task     *)
(* runs from one await that really suspends to the next without being      *)
(* interleaved, so every action below is one such segment.                 *)
(*                                                                         *)
(* Abstractions: strings (persona, goal, question and answer texts) are    *)
(* left out and every list is kept by its length or by the entries the     *)
(* code reads; wall-clock time is left out, so a sleep or a network call   *)
(* ends at an arbitrary later step and the loop test                       *)
(* `time.time() < end_time` is a free choice.                              *)
(***************************************************************************)
EXTENDS Integers, Sequences, FiniteSets

VARIABLES
    users_per_minute,  \* argument of run_chaos_test
    target,            \* how the service behind base_url answers
    clock,             \* time.time() and datetime.now()
    faults_left,       \* calls a flaky target may still answer badly
    pc,                \* where run_chaos_test stands
    tick,              \* iterations of the while loop started so far
    user_tasks,        \* the sessions of the current tick's batch
    chaos_tasks,       \* detached chaos actions: scenario -> phase -> count
    session,           \* self.session, the shared aiohttp.ClientSession
    results,           \* the results dict of run_chaos_test
    reports,           \* every report _generate_chaos_report produced
    exc,               \* an exception is propagating out of the loop
    memory,            \* one _create_memory_pressure task, looked at closely
    api,               \* api/src/main.py: one request and its response
    runner,            \* run_all_tests.py: main
    ci,                \* test_api_ci.py: CIAPITester.run_all_tests
    tester,            \* test_journey.py: LifeEvaluationTester
    load,              \* tests/simple_chaos_test.py: simple_load_test
    validator,         \* ai_test_generator.py: run_comprehensive_validation
    quality,           \* ai_test_generator.py: one call of a validate_ method
    client,            \* tasks in _call_api on one tester, looked at closely
    spike_calls        \* calls the sessions of a user spike have issued

(* The programs other than the run of the chaos engine. *)
scripts == <<memory, api, runner, ci, tester,
             load, validator, quality, client, spike_calls>>

(* The run of the chaos engine. *)
engine == <<users_per_minute, target, clock, faults_left, pc, tick,
            user_tasks, chaos_tasks, session, results, reports, exc>>

vars == <<users_per_minute, target, clock, faults_left, pc, tick, user_tasks,
          chaos_tasks, session, results, reports, exc,
          memory, api, runner, ci, tester,
          load, validator, quality, client, spike_calls>>

----------------------------------------------------------------------------
(* Bounds of the model. *)

MaxTicks == 2

MaxUsers == 2

MaxChaos == 1

MaxFaults == 1

MaxReports == 2

Duration == 1

MaxDelay == 2

MaxHistory == 2

(* Passes of the while loop of wait_for_api that are followed. *)
MaxPolls == 3

(* simple_load_test: the largest concurrent_users and the batches followed. *)
MaxLoadUsers == 5

MaxBatches == 2

(* The validate_ methods: the longest list of a scenario and of insights. *)
MaxThemes == 3

MaxInsights == 3

(* Calls of the sessions of a user spike that are followed. *)
MaxSpikeCalls == 2

(* Session tasks that share one tester, and the calls each of them makes. *)
MaxClients == 3

MaxCalls == 2

(* Program constants. *)

NUM_ROUNDS == 5

SPIKE_USERS == 50

PERCENT == 100

----------------------------------------------------------------------------
(* _call_api: the value handed back for each way the request can end.      *)
(*   "ok200"        status 200, body a JSON object as the service documents *)
(*   "fail"         non-200 status, timeout, transport exception or a body  *)
(*                  that is no JSON: both `return {}` paths                 *)
(*   "nonobject200" status 200, body a non-empty JSON value that is not an  *)
(*                  object (a list, a string, a number)                     *)
(* A 200 whose body is an empty JSON value reaches the caller as a falsy   *)
(* value, as "fail" does, and is not told apart from it.                   *)

Outcomes == {"ok200", "fail", "nonobject200"}

(* Faulty variant of CallApi: without the try/except a failed call hands   *)
(* its exception to the caller instead of a value.                         *)
CallApiPropagating(outcome) ==
    CASE outcome = "ok200" -> "object"
      [] outcome = "nonobject200" -> "nonobject"
      [] OTHER -> "exception"

CallApi(outcome) ==
    CASE outcome = "ok200" -> "object"
      [] outcome = "nonobject200" -> "nonobject"
      [] OTHER -> "empty"

Truthy(value) == value # "empty"

(* The answers the target may give to the next call. *)
(*   "ok"       every call is answered as documented                      *)
(*   "down"     every call fails (HTTP 500)                               *)
(*   "garbled"  every call is answered 200 with a non-object body         *)
(*   "flaky"    any call may end in any way, budget times at most         *)
TargetOutcomes(t, budget) ==
    CASE t = "ok" -> {"ok200"}
      [] t = "down" -> {"fail"}
      [] t = "garbled" -> {"nonobject200"}
      [] OTHER -> IF budget > 0 THEN Outcomes ELSE {"ok200"}

----------------------------------------------------------------------------
(* _simulate_single_user.  A session is its journey_data, the loop index,  *)
(* the await it is suspended at (pc) and, as history, the calls it issued   *)
(* and the way each ended.                                                  *)
(*   pc: "new" created, not started; "q" / "a" / "f" awaiting the question, *)
(*   analysis, final-roast call; "done" returned its journey_data.          *)

FIRST_QUESTION == "generate-first-question"
NEXT_QUESTION == "generate-next-question-bro"
ANALYZE == "analyze-answer-bro"
FINAL_ROAST == "generate-final-roast"

(* tick and slot say which coroutine of which batch the session is; the    *)
(* code has no such field.                                                 *)
NewSession(t) ==
    [tick |-> t, slot |-> 1, pc |-> "new", question_num |-> 0,
     questions |-> 0, answers |-> 0, analyses |-> 0,
     response_times |-> 0, errors |-> 0, total_time |-> FALSE,
     calls |-> <<>>, replies |-> <<>>]

(* self._call_api(endpoint, {..., "questions": ..., "answers": ...}) *)
Issue(s, endpoint, at) ==
    [s EXCEPT !.pc = at,
              !.calls = Append(@, [endpoint |-> endpoint,
                                   questions |-> s.questions,
                                   answers |-> s.answers])]

(* Faulty variant of IssueQuestion: every round asks for a first question. *)
IssueQuestionAlwaysFirst(s) ==
    Issue(s, FIRST_QUESTION, "q")

IssueQuestion(s) ==
    Issue(s, IF s.question_num = 0 THEN FIRST_QUESTION ELSE NEXT_QUESTION, "q")

(* The end of one round: the next round's question, or the final roast. *)
NextRound(s) ==
    IF s.question_num + 1 < NUM_ROUNDS
      THEN IssueQuestion([s EXCEPT !.question_num = @ + 1])
      ELSE Issue(s, FINAL_ROAST, "f")

(* except Exception as e: errors.append(str(e)); return journey_data *)
Raise(s) ==
    [s EXCEPT !.errors = @ + 1, !.pc = "done"]

(* Faulty variants of AfterQuestion: the call's time is not recorded; an   *)
(* empty response ends the journey.                                        *)
AfterQuestionUntimed(s, value) ==
    IF Truthy(value)
      THEN IF value = "object"
             THEN Issue([s EXCEPT !.questions = @ + 1, !.answers = @ + 1],
                        ANALYZE, "a")
             ELSE Raise(s)
      ELSE NextRound(s)

AfterQuestionAborting(s, value) ==
    LET t == [s EXCEPT !.response_times = @ + 1] IN
    IF value = "object"
      THEN Issue([t EXCEPT !.questions = @ + 1, !.answers = @ + 1],
                 ANALYZE, "a")
      ELSE Raise(t)

(* Faulty variant of AfterQuestion: the analysis is started without being  *)
(* awaited and the session goes on to its next call.                       *)
AfterQuestionNoAwait(s, value) ==
    LET t == [s EXCEPT !.response_times = @ + 1] IN
    IF Truthy(value)
      THEN IF value = "object"
             THEN NextRound(Issue([t EXCEPT !.questions = @ + 1,
                                            !.answers = @ + 1],
                                  ANALYZE, "a"))
             ELSE Raise(t)
      ELSE NextRound(t)

(* From the question call's return to the next await. *)
AfterQuestion(s, value) ==
    LET t == [s EXCEPT !.response_times = @ + 1] IN
    IF Truthy(value)
      THEN IF value = "object"
             THEN Issue([t EXCEPT !.questions = @ + 1, !.answers = @ + 1],
                        ANALYZE, "a")
             ELSE Raise(t)    \* .get on a list or a string: AttributeError
      ELSE NextRound(t)

(* From the analysis call's return to the next await. *)
AfterAnalysis(s, value) ==
    LET t == [s EXCEPT !.response_times = @ + 1] IN
    IF Truthy(value)
      THEN IF value = "object"
             THEN NextRound([t EXCEPT !.analyses = @ + 1])
             ELSE Raise(t)
      ELSE NextRound(t)

(* From the final-roast call's return to `return journey_data`. *)
AfterFinal(s, value) ==
    [s EXCEPT !.response_times = @ + 1, !.total_time = TRUE, !.pc = "done"]

(* The session resumes with the outcome of the call it awaited. *)
Advance(s, outcome) ==
    LET r == [s EXCEPT !.replies = Append(@, outcome)]
        value == CallApi(outcome)
    IN CASE s.pc = "q" -> AfterQuestion(r, value)
         [] s.pc = "a" -> AfterAnalysis(r, value)
         [] s.pc = "f" -> AfterFinal(r, value)
         [] OTHER -> s

InFlight(s) == s.pc \in {"q", "a", "f"}

(* The dict the session returns, with the session it comes from. *)
JourneyData(s) ==
    [tick |-> s.tick, slot |-> s.slot,
     questions |-> s.questions, answers |-> s.answers, analyses |-> s.analyses,
     response_times |-> s.response_times, errors |-> s.errors,
     total_time |-> s.total_time]

----------------------------------------------------------------------------
(* _setup_chaos_scenarios: name, probability (percent), severity, duration *)

ChaosScenarios ==
    << [name |-> "api_timeout", probability |-> 15, severity |-> 8,
        duration |-> 10],
       [name |-> "memory_pressure", probability |-> 10, severity |-> 6,
        duration |-> 15],
       [name |-> "network_flakiness", probability |-> 20, severity |-> 7,
        duration |-> 5],
       [name |-> "concurrent_user_spike", probability |-> 25, severity |-> 9,
        duration |-> 20] >>

ScenarioNames == {ChaosScenarios[k].name : k \in DOMAIN ChaosScenarios}

USER_SPIKE == "concurrent_user_spike"

(* A detached chaos task is pending (created by asyncio.create_task, not   *)
(* yet run), running (suspended in its sleep; a spike: in its gather with  *)
(* all SPIKE_USERS sessions in flight) or, a spike only, draining (some    *)
(* but not all of its sessions have returned).  Finished tasks are         *)
(* dropped; created counts every task of the scenario ever created.        *)
NoTasks ==
    [n \in ScenarioNames |->
        [created |-> 0, pending |-> 0, running |-> 0, draining |-> 0]]

(* Faulty variant of CreateTasks: create_task stands outside the if, and   *)
(* is reached for every scenario.                                          *)
CreateTasksUnconditional(ct, triggered) ==
    [n \in ScenarioNames |->
        [ct[n] EXCEPT !.created = @ + 1, !.pending = @ + 1]]

(* asyncio.create_task(scenario.execute()) for every triggered scenario *)
CreateTasks(ct, triggered) ==
    [n \in ScenarioNames |->
        IF \E k \in triggered : ChaosScenarios[k].name = n
          THEN [ct[n] EXCEPT !.created = @ + 1, !.pending = @ + 1]
          ELSE ct[n]]

(* The loop suspends: every pending task runs to its first await. *)
StartPending(ct) ==
    [n \in ScenarioNames |->
        [ct[n] EXCEPT !.pending = 0, !.running = @ + ct[n].pending]]

ChaosExecuting(ct) ==
    \E n \in ScenarioNames : ct[n].running + ct[n].draining > 0

(* The clock.  A run of a set duration starts at StartTime and is to last  *)
(* until EndTime; time is followed until Horizon.  A free clock leaves the *)
(* duration of the run unsaid: its reading stays where it is and the loop  *)
(* test may go either way.                                                 *)
StartTime == 0

EndTime == StartTime + Duration

Horizon == EndTime + MaxDelay

OpenClock == [free |-> TRUE, now |-> StartTime]

SetClock == [free |-> FALSE, now |-> StartTime]

Elapsed(c) == ~c.free /\ c.now >= EndTime

(* The time one segment of the loop may take. *)
Delays(c) ==
    IF c.free THEN {0} ELSE {d \in 0..MaxDelay : c.now + d <= Horizon}

AfterDelay(c, d) == [c EXCEPT !.now = @ + d]

(* Faulty variant of Stamp: the event is given the end of the run. *)
StampEndTime(c, d) == EndTime

(* datetime.now(), d after the loop test read the clock. *)
Stamp(c, d) == c.now + d

(* results["chaos_events"].append({...}) in the order of the scenario      *)
(* list; tick says which iteration recorded the event.                     *)
RECURSIVE ChaosEvents(_, _, _, _)
ChaosEvents(k, triggered, t, at) ==
    IF k > Len(ChaosScenarios) THEN <<>>
    ELSE (IF k \in triggered
            THEN << [scenario |-> ChaosScenarios[k].name,
                     severity |-> ChaosScenarios[k].severity,
                     tick |-> t,
                     timestamp |-> at] >>
            ELSE <<>>) \o ChaosEvents(k + 1, triggered, t, at)

----------------------------------------------------------------------------
(* run_chaos_test *)

NewResults ==
    [total_users |-> 0, successful_journeys |-> 0, failed_journeys |-> 0,
     chaos_events |-> <<>>, performance_metrics |-> 0, user_journeys |-> <<>>]

(* Faulty variant of MergeJourney: total_users is counted in the else      *)
(* branch.                                                                 *)
MergeJourneyTotalInElse(res, journey) ==
    [res EXCEPT !.user_journeys = Append(@, journey),
                !.failed_journeys = IF journey.errors > 0 THEN @ + 1 ELSE @,
                !.successful_journeys = IF journey.errors > 0 THEN @ ELSE @ + 1,
                !.total_users = IF journey.errors > 0 THEN @ ELSE @ + 1]

(* Faulty variant of MergeJourney: the test is on the presence of the      *)
(* errors key, which every journey has.                                    *)
MergeJourneyErrorsKey(res, journey) ==
    [res EXCEPT !.user_journeys = Append(@, journey),
                !.failed_journeys = @ + 1,
                !.total_users = @ + 1]

(* One pass of `for journey in journey_results` (every result is a dict:   *)
(* _simulate_single_user catches what it raises).                          *)
MergeJourney(res, journey) ==
    [res EXCEPT !.user_journeys = Append(@, journey),
                !.failed_journeys = IF journey.errors > 0 THEN @ + 1 ELSE @,
                !.successful_journeys = IF journey.errors > 0 THEN @ ELSE @ + 1,
                !.total_users = @ + 1]

(* Faulty variant of MergeAll: the last result is left out. *)
RECURSIVE MergeAllButLast(_, _)
MergeAllButLast(res, journeys) ==
    IF Len(journeys) <= 1 THEN res
    ELSE MergeAllButLast(MergeJourney(res, Head(journeys)), Tail(journeys))

RECURSIVE MergeAll(_, _)
MergeAll(res, journeys) ==
    IF journeys = <<>> THEN res
    ELSE MergeAll(MergeJourney(res, Head(journeys)), Tail(journeys))

(* Faulty variant of TotalTime: a journey without total_time counts for    *)
(* the calls it timed.                                                     *)
TotalTimeOfCalls(journey) == journey.response_times

(* journey.get("total_time", 0), every call taken to last one unit of     *)
(* time and the code between two calls none.                               *)
TotalTime(journey) ==
    IF journey.total_time THEN journey.response_times ELSE 0

RECURSIVE SumTotalTime(_)
SumTotalTime(journeys) ==
    IF journeys = <<>> THEN 0
    ELSE TotalTime(Head(journeys)) + SumTotalTime(Tail(journeys))

(* max(n, 1) *)
AtLeastOne(n) == IF n > 1 THEN n ELSE 1

(* Faulty variant of CalculateAvgResponseTime: the divisor is not guarded. *)
CalculateAvgResponseTimeUnguarded(journeys) ==
    [num |-> SumTotalTime(journeys), den |-> Len(journeys)]

(* _calculate_avg_response_time.  A quotient is kept as the exact fraction *)
(* num / den; den = 0 stands for a ZeroDivisionError.  The rounding of     *)
(* Python's floats is left out.                                            *)
CalculateAvgResponseTime(journeys) ==
    [num |-> SumTotalTime(journeys), den |-> AtLeastOne(Len(journeys))]

(* "total_duration": results.get("total_users", 0) and "30 minutes" or ... *)
TotalDuration(res) ==
    IF res.total_users # 0 THEN "30 minutes" ELSE "0 minutes"

(* _analyze_chaos_impact, _analyze_performance_trends and                  *)
(* _generate_recommendations return fixed values.                          *)
AnalyzeChaosImpact(res) ==
    [most_impactful_scenario |-> "api_timeout",
     recovery_time |-> "< 30 seconds",
     resilience_score |-> "8.5"]

AnalyzePerformanceTrends(res) ==
    [response_time_trend |-> "stable",
     error_rate_trend |-> "increasing under load",
     resource_utilization |-> "moderate"]

GenerateRecommendations(res) ==
    << "Implement circuit breakers for OpenAI API calls",
       "Add request queuing for high load scenarios",
       "Increase connection pooling for database",
       "Add caching layer for repeated requests",
       "Implement graceful degradation when AI services fail" >>

(* Faulty variant of ResultsAfterReport: the report takes the journeys out *)
(* of the results as it reads them.                                        *)
ResultsAfterReportDrained(res) ==
    [res EXCEPT !.user_journeys = <<>>]

(* The results once _generate_chaos_report has returned: it reads them     *)
(* with .get and len and writes none of their keys.                        *)
ResultsAfterReport(res) == res

(* Faulty variant of GenerateChaosReport: the divisor is not guarded. *)
GenerateChaosReportUnguarded(res) ==
    [total_duration |-> TotalDuration(res),
     total_users |-> res.total_users,
     success_rate |-> [num |-> res.successful_journeys * PERCENT,
                       den |-> res.total_users],
     chaos_events |-> Len(res.chaos_events),
     avg_response_time |-> CalculateAvgResponseTime(res.user_journeys),
     chaos_impact |-> AnalyzeChaosImpact(res),
     performance_trends |-> AnalyzePerformanceTrends(res),
     recommendations |-> GenerateRecommendations(res),
     journeys |-> Len(res.user_journeys)]

(* _generate_chaos_report: the summary and the three fixed parts of the    *)
(* report; the name of the file it is saved in, made of the time of day,   *)
(* is left out.                                                            *)
(*   success_rate = (successful_journeys / max(total_users, 1)) * 100      *)
GenerateChaosReport(res) ==
    [total_duration |-> TotalDuration(res),
     total_users |-> res.total_users,
     success_rate |-> [num |-> res.successful_journeys * PERCENT,
                       den |-> AtLeastOne(res.total_users)],
     chaos_events |-> Len(res.chaos_events),
     avg_response_time |-> CalculateAvgResponseTime(res.user_journeys),
     chaos_impact |-> AnalyzeChaosImpact(res),
     performance_trends |-> AnalyzePerformanceTrends(res),
     recommendations |-> GenerateRecommendations(res),
     journeys |-> Len(res.user_journeys)]

(* Faulty variant of ReportOnExit: the report is written after the loop,   *)
(* not in a finally block.                                                 *)
ReportOnNormalExit(reps, res, raised) ==
    IF raised THEN reps ELSE Append(reps, GenerateChaosReport(res))

(* finally: ... await self._generate_chaos_report(results) *)
ReportOnExit(reps, res, raised) ==
    Append(reps, GenerateChaosReport(res))

Finished(raised) == IF raised THEN "raised" ELSE "returned"

(* The finally block, entered with results res: close the client session   *)
(* if there is one (an await: pending chaos tasks get to run), else go on  *)
(* to the report at once.                                                  *)
Finally(res, raised, ct) ==
    /\ exc' = raised
    /\ IF session = "open"
         THEN /\ session' = "closed"
              /\ pc' = "closing"
              /\ reports' = reports
              /\ results' = res
              /\ chaos_tasks' = StartPending(ct)
         ELSE /\ session' = session
              /\ pc' = Finished(raised)
              /\ reports' = ReportOnExit(reports, res, raised)
              /\ results' = ResultsAfterReport(res)
              /\ chaos_tasks' = ct

(* Variant of OnTickException: the exception is caught and logged inside   *)
(* the loop, which goes on to the sleep before the next tick.              *)
OnTickExceptionContinue(res, ct) ==
    /\ exc' = TRUE
    /\ session' = session
    /\ pc' = "sleep"
    /\ reports' = reports
    /\ results' = res
    /\ chaos_tasks' = StartPending(ct)

(* An exception leaves the while loop: try/finally has no except clause. *)
OnTickException(res, ct) ==
    Finally(res, TRUE, ct)

(* Faulty variants of GatherDone: the wait ends with the first session     *)
(* that returns; the wait also covers the chaos tasks.                     *)
GatherDoneFirstCompleted ==
    \E i \in DOMAIN user_tasks : user_tasks[i].pc = "done"

GatherDoneAwaitsChaos ==
    /\ \A i \in DOMAIN user_tasks : user_tasks[i].pc = "done"
    /\ ~ChaosExecuting(chaos_tasks)

(* await asyncio.gather over user_tasks has returned *)
GatherDone ==
    \A i \in DOMAIN user_tasks : user_tasks[i].pc = "done"

Done(tasks) == SelectSeq(tasks, LAMBDA s : s.pc = "done")

Journeys(tasks) == [i \in DOMAIN tasks |-> JourneyData(tasks[i])]

(* _call_api: if not self.session: self.session = aiohttp.ClientSession() *)
EnsureSession(sess) == IF sess = "none" THEN "open" ELSE sess

(* Faulty variant of LoopTest: the test is not made. *)
LoopTestSkipped(c) == {TRUE}

(* while time.time() < end_time: the values the test may take. *)
LoopTest(c) ==
    IF c.free THEN BOOLEAN ELSE {c.now < EndTime}

(* One iteration of the while loop, from the loop test to its first await  *)
(* that suspends: the chaos rolls, the batch's coroutines, the metrics     *)
(* sample (psutil may raise), then gather, which starts the batch.  With   *)
(* no users gather returns at once and 60 / users_per_minute raises.       *)
(* At most maxChaos scenarios trigger in one run.                          *)
TickWith(maxChaos) ==
    /\ pc \in {"idle", "sleep"}
    /\ TRUE \in LoopTest(clock)
    /\ tick < MaxTicks
    /\ \E triggered \in SUBSET DOMAIN ChaosScenarios, metricsOk \in BOOLEAN,
          d \in Delays(clock) :
          /\ Len(results.chaos_events) + Cardinality(triggered) <= maxChaos
          /\ clock' = AfterDelay(clock, d)
          /\ LET created == CreateTasks(chaos_tasks, triggered)
                 res1 == [results EXCEPT !.chaos_events =
                             @ \o ChaosEvents(1, triggered, tick + 1,
                                              Stamp(clock, d))]
                 res2 == [res1 EXCEPT !.performance_metrics = @ + 1]
                 batch == [i \in 1..users_per_minute |->
                              [NewSession(tick + 1) EXCEPT !.slot = i]]
             IN /\ tick' = tick + 1
                /\ IF ~metricsOk
                     THEN /\ user_tasks' = user_tasks \o batch
                          /\ OnTickException(res1, created)
                     ELSE IF users_per_minute = 0
                     THEN /\ user_tasks' = user_tasks
                          /\ OnTickException(res2, created)
                     ELSE /\ results' = res2
                          /\ user_tasks' = user_tasks \o
                                [i \in DOMAIN batch |-> IssueQuestion(batch[i])]
                          /\ session' = EnsureSession(session)
                          /\ chaos_tasks' = StartPending(created)
                          /\ pc' = "gather"
                          /\ UNCHANGED <<reports, exc>>
    /\ UNCHANGED <<scripts, users_per_minute, target, faults_left>>

Tick == TickWith(MaxChaos)

(* A tick of a run in which no scenario's random draw is ever below its    *)
(* probability.                                                            *)
TickQuiet == TickWith(0)

(* A tick in which any set of scenarios may trigger. *)
TickFree == TickWith(Len(ChaosScenarios) * MaxTicks)

(* The loop test fails: the duration has elapsed. *)
LoopExit ==
    /\ pc \in {"idle", "sleep"}
    /\ FALSE \in LoopTest(clock)
    /\ Finally(results, FALSE, chaos_tasks)
    /\ UNCHANGED <<scripts, users_per_minute, target, clock, faults_left,
                   tick, user_tasks>>

(* Faulty variant of SessionStep: a session that returns counts itself in  *)
(* the shared results.                                                     *)
SessionStepWritesResults(i) ==
    /\ InFlight(user_tasks[i])
    /\ \E outcome \in TargetOutcomes(target, faults_left) :
          LET s == Advance(user_tasks[i], outcome) IN
          /\ user_tasks' = [user_tasks EXCEPT ![i] = s]
          /\ results' = IF s.pc = "done"
                           THEN MergeJourney(results, JourneyData(s))
                           ELSE results
          /\ faults_left' = IF target = "flaky" /\ outcome # "ok200"
                              THEN faults_left - 1 ELSE faults_left
    /\ UNCHANGED <<scripts, users_per_minute, target, clock, pc, tick, chaos_tasks,
                   session, reports, exc>>

(* A call of session i ends and the session runs to its next await. *)
SessionStep(i) ==
    /\ InFlight(user_tasks[i])
    /\ \E outcome \in TargetOutcomes(target, faults_left) :
          /\ user_tasks' = [user_tasks EXCEPT ![i] = Advance(@, outcome)]
          /\ faults_left' = IF target = "flaky" /\ outcome # "ok200"
                              THEN faults_left - 1 ELSE faults_left
    /\ UNCHANGED <<scripts, users_per_minute, target, clock, pc, tick, chaos_tasks,
                   session, results, reports, exc>>

(* gather returns: the for loop over journey_results, then                 *)
(* await asyncio.sleep(60 / users_per_minute).                             *)
Merge ==
    /\ pc = "gather"
    /\ GatherDone
    /\ results' = MergeAll(results, Journeys(Done(user_tasks)))
    /\ user_tasks' = SelectSeq(user_tasks, LAMBDA s : s.pc # "done")
    /\ pc' = "sleep"
    /\ UNCHANGED <<scripts, users_per_minute, target, clock, faults_left, tick, chaos_tasks,
                   session, reports, exc>>

(* self.session.close() has returned: the report, then return or re-raise. *)
Report ==
    /\ pc = "closing"
    /\ reports' = ReportOnExit(reports, results, exc)
    /\ results' = ResultsAfterReport(results)
    /\ pc' = Finished(exc)
    /\ UNCHANGED <<scripts, users_per_minute, target, clock, faults_left,
                   tick, user_tasks, chaos_tasks, session, exc>>

(* The caller of run_chaos_test has the report computed once more from    *)
(* the results it was returned.                                            *)
ReportAgain ==
    /\ pc = "returned"
    /\ Len(reports) < MaxReports
    /\ reports' = Append(reports, GenerateChaosReport(results))
    /\ results' = ResultsAfterReport(results)
    /\ UNCHANGED <<scripts, users_per_minute, target, clock, faults_left, pc,
                   tick, user_tasks, chaos_tasks, session, exc>>

(* _inject_api_delay, _create_memory_pressure, _simulate_network_issues:   *)
(* the task's sleeps are over and it ends.                                 *)
ChaosEnd(n) ==
    /\ n # USER_SPIKE
    /\ chaos_tasks[n].running > 0
    /\ chaos_tasks' = [chaos_tasks EXCEPT ![n].running = @ - 1]
    /\ UNCHANGED <<scripts, users_per_minute, target, clock, faults_left, pc, tick,
                   user_tasks, session, results, reports, exc>>

(* _user_spike: the first of its SPIKE_USERS sessions returns. *)
SpikeDrain ==
    /\ chaos_tasks[USER_SPIKE].running > 0
    /\ chaos_tasks' = [chaos_tasks EXCEPT ![USER_SPIKE].running = @ - 1,
                                          ![USER_SPIKE].draining = @ + 1]
    /\ UNCHANGED <<scripts, users_per_minute, target, clock, faults_left, pc, tick,
                   user_tasks, session, results, reports, exc>>

(* _user_spike: the last session returns, its gather and the task end. *)
SpikeEnd ==
    /\ chaos_tasks[USER_SPIKE].draining > 0
    /\ chaos_tasks' = [chaos_tasks EXCEPT ![USER_SPIKE].draining = @ - 1]
    /\ UNCHANGED <<scripts, users_per_minute, target, clock, faults_left, pc, tick,
                   user_tasks, session, results, reports, exc>>

(* Time passes, wherever the run stands. *)
Elapse ==
    /\ ~clock.free
    /\ clock.now < Horizon
    /\ clock' = AfterDelay(clock, 1)
    /\ UNCHANGED <<scripts, users_per_minute, target, faults_left, pc, tick,
                   user_tasks, chaos_tasks, session, results, reports, exc>>

InitEngine ==
    /\ pc = "idle"
    /\ tick = 0
    /\ user_tasks = <<>>
    /\ chaos_tasks = NoTasks
    /\ session = "none"
    /\ results = NewResults
    /\ reports = <<>>
    /\ exc = FALSE

(* The chaos engine is not run. *)
EngineOff ==
    /\ users_per_minute = 0
    /\ target = "ok"
    /\ clock = OpenClock
    /\ faults_left = 0
    /\ InitEngine

(* None of the other programs is looked at. *)
NoScripts ==
    /\ memory = "none"
    /\ api = "none"
    /\ runner = "none"
    /\ ci = "none"
    /\ tester = "none"
    /\ load = "none"
    /\ validator = "none"
    /\ quality = "none"
    /\ client = "none"
    /\ spike_calls = "none"

(* Before run_chaos_test: a tester as __init__ leaves it. *)
InitRun ==
    /\ NoScripts
    /\ InitEngine

(* Runs against a target that answers every call the same way. *)
Init ==
    /\ users_per_minute \in 0..MaxUsers
    /\ target \in {"ok", "down", "garbled"}
    /\ clock = OpenClock
    /\ faults_left = 0
    /\ InitRun

Next ==
    \/ Tick
    \/ LoopExit
    \/ \E i \in DOMAIN user_tasks : SessionStep(i)
    \/ Merge
    \/ Report
    \/ \E n \in ScenarioNames : ChaosEnd(n)
    \/ SpikeDrain
    \/ SpikeEnd

Spec == Init /\ [][Next]_vars

(* The end-to-end scenarios: 3 simulated users, target all good or all bad. *)
InitThreeUsers ==
    /\ users_per_minute = 3
    /\ target \in {"ok", "down"}
    /\ clock = OpenClock
    /\ faults_left = 0
    /\ InitRun

SpecThreeUsers == InitThreeUsers /\ [][Next]_vars

(* Runs of one or two users a tick against a flaky target, in which no     *)
(* chaos scenario triggers.                                                *)
InitFlaky ==
    /\ users_per_minute \in {1, 2}
    /\ target = "flaky"
    /\ clock = OpenClock
    /\ faults_left = MaxFaults
    /\ InitRun

NextFlaky ==
    \/ TickQuiet
    \/ LoopExit
    \/ \E i \in DOMAIN user_tasks : SessionStep(i)
    \/ Merge
    \/ Report

SpecFlaky == InitFlaky /\ [][NextFlaky]_vars

(* Runs of a set duration: the loop goes on until end_time has passed.     *)
(* The chaos tasks outlast the run.                                        *)
InitClock ==
    /\ users_per_minute \in {1, 2}
    /\ target = "down"
    /\ clock = SetClock
    /\ faults_left = 0
    /\ InitRun

NextClock ==
    \/ Tick
    \/ LoopExit
    \/ \E i \in DOMAIN user_tasks : SessionStep(i)
    \/ Merge
    \/ Report
    \/ Elapse

SpecClock == InitClock /\ [][NextClock]_vars

(* Runs of one user a tick in which every scenario may trigger in every    *)
(* tick and the chaos actions outlast the run.                             *)
InitChaos ==
    /\ users_per_minute = 1
    /\ target = "down"
    /\ clock = OpenClock
    /\ faults_left = 0
    /\ InitRun

NextChaos ==
    \/ TickFree
    \/ LoopExit
    \/ \E i \in DOMAIN user_tasks : SessionStep(i)
    \/ Merge
    \/ Report

SpecChaos == InitChaos /\ [][NextChaos]_vars

(* Runs whose caller computes the report again. *)
InitReport ==
    /\ users_per_minute \in 1..MaxUsers
    /\ target \in {"ok", "garbled"}
    /\ clock = OpenClock
    /\ faults_left = 0
    /\ InitRun

NextReport ==
    \/ Next
    \/ ReportAgain

SpecReport == InitReport /\ [][NextReport]_vars

(* Runs of a set duration in which what is waited for comes: time passes,  *)
(* every call returns or times out, every sleep ends, the client session   *)
(* closes.  Nothing is asked of the chaos tasks.                           *)
InitLive ==
    /\ users_per_minute \in {0, 1, 2}
    /\ target \in {"ok", "garbled"}
    /\ clock = SetClock
    /\ faults_left = 0
    /\ InitRun

SpecLive ==
    /\ InitLive
    /\ [][NextClock]_vars
    /\ WF_vars(Elapse)
    /\ WF_vars(Tick)
    /\ WF_vars(LoopExit)
    /\ WF_vars(\E i \in DOMAIN user_tasks : SessionStep(i))
    /\ WF_vars(Merge)
    /\ WF_vars(Report)

(* One session on its own, from its first call to its return, every call   *)
(* free to end in any way.                                                 *)
CallsPerJourney == 2 * NUM_ROUNDS + 1

InitSession ==
    /\ users_per_minute = 1
    /\ target = "flaky"
    /\ clock = OpenClock
    /\ faults_left = CallsPerJourney
    /\ pc = "gather"
    /\ tick = 1
    /\ user_tasks = << IssueQuestion(NewSession(1)) >>
    /\ NoScripts
    /\ chaos_tasks = NoTasks
    /\ session = "open"
    /\ results = [NewResults EXCEPT !.performance_metrics = 1]
    /\ reports = <<>>
    /\ exc = FALSE

NextSession == SessionStep(1)

SpecSession == InitSession /\ [][NextSession]_vars

----------------------------------------------------------------------------
(* Properties *)

Count(seq, Test(_)) == Len(SelectSeq(seq, Test))

Endpoints(s) == [k \in DOMAIN s.calls |-> s.calls[k].endpoint]

QuestionCalls(s) ==
    Count(Endpoints(s), LAMBDA e : e \in {FIRST_QUESTION, NEXT_QUESTION})

BatchInFlight == Count(user_tasks, InFlight)

(* Sessions of spike tasks in flight, at least: all SPIKE_USERS of a       *)
(* running spike, one or more of a draining one.                           *)
SpikeInFlight ==
    SPIKE_USERS * chaos_tasks[USER_SPIKE].running
        + chaos_tasks[USER_SPIKE].draining

(* C1: against a target that answers HTTP 500 to every call, a run of one  *)
(* tick with 3 users returns successful_journeys = 0, failed_journeys = 3  *)
(* and journeys whose errors lists are all non-empty.                      *)
C1_AllFailedWhenDown ==
    (target = "down" /\ users_per_minute = 3 /\ tick = 1 /\ pc = "returned")
        => /\ results.successful_journeys = 0
           /\ results.failed_journeys = 3
           /\ \A j \in DOMAIN results.user_journeys :
                 results.user_journeys[j].errors > 0

(* C2: a session that has returned and had a call fail has a non-empty     *)
(* errors list.                                                            *)
C2_FailedCallRecorded ==
    \A i \in DOMAIN user_tasks :
        (user_tasks[i].pc = "done"
            /\ \E k \in DOMAIN user_tasks[i].replies :
                  user_tasks[i].replies[k] = "fail")
        => user_tasks[i].errors > 0

(* C3, as claimed: the sessions in flight, those of chaos spikes included, *)
(* never outnumber users_per_minute.                                       *)
C3_AllInFlightBounded ==
    BatchInFlight + SpikeInFlight <= users_per_minute

(* C3, amended: the sessions of the tick loop's own batches in flight      *)
(* never outnumber users_per_minute, whatever chaos has been triggered.    *)
C3_BatchInFlightBounded ==
    BatchInFlight <= users_per_minute

C3_Witness ==
    /\ pc = "gather"
    /\ tick = 2
    /\ users_per_minute > 0
    /\ BatchInFlight = users_per_minute
    /\ chaos_tasks[USER_SPIKE].running > 0
    /\ \E e \in DOMAIN results.chaos_events :
          results.chaos_events[e].tick = 1

(* C4: the counters partition the journeys: total_users =                  *)
(* successful_journeys + failed_journeys = len(user_journeys), the failed  *)
(* ones being exactly those with a non-empty errors list.                  *)
C4_CountersPartitionJourneys ==
    /\ results.total_users = Len(results.user_journeys)
    /\ results.total_users
          = results.successful_journeys + results.failed_journeys
    /\ results.failed_journeys
          = Count(results.user_journeys, LAMBDA j : j.errors > 0)
    /\ results.successful_journeys
          = Count(results.user_journeys, LAMBDA j : j.errors = 0)

C4_Witness ==
    /\ pc = "returned"
    /\ results.failed_journeys > 0
    /\ results.successful_journeys > 0

(* C5: a run that has left the loop, by return or by exception, has        *)
(* generated exactly one report, from the results as they then stood; a    *)
(* run still in its loop has generated none.                               *)
C5_ReportExactlyOnce ==
    IF pc \in {"returned", "raised"}
      THEN /\ Len(reports) = 1
           /\ reports[1].total_users = results.total_users
           /\ reports[1].success_rate.num = PERCENT * results.successful_journeys
           /\ reports[1].journeys = Len(results.user_journeys)
           /\ reports[1].chaos_events = Len(results.chaos_events)
      ELSE reports = <<>>

C5_Witness ==
    /\ pc = "raised"
    /\ Len(reports) = 1
    /\ reports[1].total_users > 0

(* C6, as claimed: a tick that raises leaves the loop running.             *)
C6_LoopSurvivesException ==
    [][(~exc /\ exc') => pc' \in {"gather", "sleep"}]_vars

(* C6, amended: a tick that raises ends the loop: the run goes to its      *)
(* finally block and no further tick starts.                               *)
C6_ExceptionEndsLoop ==
    /\ [](exc => pc \in {"closing", "raised"})
    /\ [][exc => (exc' /\ tick' = tick)]_vars

C6_Witness ==
    /\ exc
    /\ pc = "raised"
    /\ tick = 1
    /\ Len(reports) = 1

(* C7: a session in flight belongs to the current tick's batch and the     *)
(* loop is waiting in gather: no tick starts before the batch before it    *)
(* has returned.                                                           *)
C7_TickBarrier ==
    \A i \in DOMAIN user_tasks :
        InFlight(user_tasks[i]) => (user_tasks[i].tick = tick /\ pc = "gather")

C7_Witness ==
    /\ tick = 2
    /\ pc = "gather"
    /\ BatchInFlight > 0
    /\ results.total_users = users_per_minute

(* C8: the loop never waits for a chaos task: each of its steps, and each  *)
(* step of its batch, is enabled whatever the chaos tasks are doing.       *)
C8_ChaosDetached ==
    /\ \A i \in DOMAIN user_tasks :
          InFlight(user_tasks[i]) => ENABLED SessionStep(i)
    /\ (pc = "gather" /\ \A i \in DOMAIN user_tasks : user_tasks[i].pc = "done")
          => ENABLED Merge
    /\ pc \in {"idle", "sleep"} => ENABLED LoopExit
    /\ (pc \in {"idle", "sleep"} /\ tick < MaxTicks) => ENABLED Tick
    /\ pc = "closing" => ENABLED Report

C8_Witness ==
    /\ pc = "returned"
    /\ Len(reports) = 1
    /\ tick = 2
    /\ results.total_users = 2 * users_per_minute
    /\ users_per_minute > 0
    /\ ChaosExecuting(chaos_tasks)
    /\ \E e \in DOMAIN results.chaos_events :
          results.chaos_events[e].tick = 1

(* C9: a session that returned with every call answered as documented      *)
(* recorded 11 response times: 5 question, 5 analysis and 1 final call.    *)
C9_ElevenCalls ==
    \A i \in DOMAIN user_tasks :
        LET s == user_tasks[i] IN
        (s.pc = "done" /\ \A k \in DOMAIN s.replies : s.replies[k] = "ok200")
        => /\ s.response_times = 11
           /\ Len(s.calls) = 11
           /\ QuestionCalls(s) = 5
           /\ Count(Endpoints(s), LAMBDA e : e = ANALYZE) = 5
           /\ Count(Endpoints(s), LAMBDA e : e = FINAL_ROAST) = 1

C9_Witness ==
    \E i \in DOMAIN user_tasks :
        /\ user_tasks[i].pc = "done"
        /\ user_tasks[i].response_times = 11
        /\ \A k \in DOMAIN user_tasks[i].replies :
              user_tasks[i].replies[k] = "ok200"

(* C10: a session whose calls failed, in any number and at any place, the  *)
(* others being answered as documented, still issued the 5 question calls  *)
(* and, last, the final-roast call.                                        *)
C10_FailuresDoNotAbort ==
    \A i \in DOMAIN user_tasks :
        LET s == user_tasks[i] IN
        (s.pc = "done"
            /\ \A k \in DOMAIN s.replies : s.replies[k] \in {"ok200", "fail"})
        => /\ QuestionCalls(s) = 5
           /\ Count(Endpoints(s), LAMBDA e : e = FINAL_ROAST) = 1
           /\ s.calls[Len(s.calls)].endpoint = FINAL_ROAST
           /\ Len(s.replies) = Len(s.calls)

C10_Witness ==
    \E i \in DOMAIN user_tasks :
        LET s == user_tasks[i] IN
        /\ s.pc = "done"
        /\ \A k \in DOMAIN s.replies : s.replies[k] \in {"ok200", "fail"}
        /\ Count(s.replies, LAMBDA r : r = "fail") >= 2
        /\ s.replies[1] = "fail"
        /\ QuestionCalls(s) = 5


(* The session in slot i has just been handed the outcome of a call. *)
Replied(i, outcome) ==
    /\ i \in DOMAIN user_tasks'
    /\ user_tasks'[i].replies = Append(user_tasks[i].replies, outcome)

(* C11: a failed call comes back as a value: the session that issued it    *)
(* goes on without an error recorded, its sibling sessions of the batch    *)
(* are left as they were, and the tick loop is neither moved nor raised    *)
(* into.                                                                   *)
C11_FailedCallReturns ==
    [][\A i \in DOMAIN user_tasks :
          Replied(i, "fail") =>
              /\ user_tasks'[i].errors = user_tasks[i].errors
              /\ user_tasks'[i].response_times
                     = user_tasks[i].response_times + 1
              /\ \A j \in DOMAIN user_tasks \ {i} :
                     user_tasks'[j] = user_tasks[j]
              /\ pc' = pc /\ exc' = exc /\ tick' = tick
              /\ results' = results]_vars

(* A call of one session has failed while its sibling is in flight, and    *)
(* both go on.                                                             *)
C11_Witness ==
    /\ pc = "gather"
    /\ \E i, j \in DOMAIN user_tasks :
          /\ i # j
          /\ \E k \in DOMAIN user_tasks[i].replies :
                user_tasks[i].replies[k] = "fail"
          /\ InFlight(user_tasks[i]) /\ user_tasks[i].errors = 0
          /\ InFlight(user_tasks[j])


(* C12, as claimed: the success rate of the report is                      *)
(* successful_journeys / max(total_users, 1), a value of [0, 1], and 0     *)
(* when total_users is 0.                                                  *)
C12_RateIsFraction ==
    \A k \in DOMAIN reports :
        LET rate == reports[k].success_rate IN
        /\ rate.den >= 1
        /\ rate.num * AtLeastOne(results.total_users)
              = results.successful_journeys * rate.den
        /\ rate.num <= rate.den
        /\ results.total_users = 0 => rate.num = 0

(* C12, amended: the success rate of the report is the percentage          *)
(* 100 * successful_journeys / max(total_users, 1), a value of [0, 100],   *)
(* computed without a division by zero and 0 when total_users is 0.        *)
C12_RateIsPercentage ==
    \A k \in DOMAIN reports :
        LET rate == reports[k].success_rate IN
        /\ rate.den >= 1
        /\ rate.num * AtLeastOne(results.total_users)
              = PERCENT * results.successful_journeys * rate.den
        /\ rate.num <= PERCENT * rate.den
        /\ results.total_users = 0 => rate.num = 0

(* A report of a run in which one of two journeys succeeded: 50. *)
C12_Witness ==
    /\ Len(reports) = 1
    /\ reports[1].total_users = 2
    /\ reports[1].success_rate.num = 50 * reports[1].success_rate.den


(* C13: against a target that answers every call as documented, a run of   *)
(* one tick with 3 users returns total_users = 3, successful_journeys = 3  *)
(* and failed_journeys = 0, whichever chaos scenarios were triggered.      *)
C13_AllSucceedWhenOk ==
    (target = "ok" /\ users_per_minute = 3 /\ tick = 1 /\ pc = "returned")
        => /\ results.total_users = 3
           /\ results.successful_journeys = 3
           /\ results.failed_journeys = 0

(* Such a run has returned, with the user spike triggered in its tick. *)
C13_Witness ==
    /\ target = "ok" /\ users_per_minute = 3 /\ tick = 1 /\ pc = "returned"
    /\ Len(results.chaos_events) = 1
    /\ results.chaos_events[1].scenario = USER_SPIKE
    /\ results.successful_journeys = 3


(* C14: a run whose loop never starts a tick still writes its report, with *)
(* nothing raised and no division by zero: total_users 0, success_rate 0,  *)
(* chaos_events 0 and avg_response_time 0.                                 *)
C14_EmptyRunReports ==
    (tick = 0 /\ pc \in {"returned", "raised"})
        => /\ pc = "returned" /\ ~exc
           /\ Len(reports) = 1
           /\ reports[1].total_users = 0
           /\ reports[1].success_rate.den >= 1
           /\ reports[1].success_rate.num = 0
           /\ reports[1].chaos_events = 0
           /\ reports[1].avg_response_time.den >= 1
           /\ reports[1].avg_response_time.num = 0

(* A run has returned without a tick, for a positive number of users. *)
C14_Witness ==
    /\ tick = 0 /\ pc = "returned" /\ users_per_minute > 0
    /\ Len(reports) = 1
    /\ reports[1].journeys = 0


(* C15: once end_time has passed no tick starts; a batch in flight is      *)
(* waited for until its last session has returned and is then merged, so   *)
(* the report of a run that did not raise counts every session launched.   *)
C15_DrainBeforeReport ==
    /\ [][Elapsed(clock) => tick' = tick]_vars
    /\ [][(pc = "gather" /\ pc' # "gather") =>
             /\ pc' = "sleep"
             /\ \A i \in DOMAIN user_tasks : user_tasks[i].pc = "done"
             /\ Len(results'.user_journeys)
                    = Len(results.user_journeys) + Len(user_tasks)]_vars
    /\ []((reports # <<>> /\ ~exc) =>
             /\ user_tasks = <<>>
             /\ reports[1].journeys = tick * users_per_minute
             /\ reports[1].total_users = tick * users_per_minute)

(* A run stopped by the clock after its first tick has reported the whole  *)
(* batch of that tick.                                                     *)
C15_Witness ==
    /\ Elapsed(clock) /\ pc = "returned"
    /\ tick = 1 /\ users_per_minute = 2
    /\ reports # <<>>
    /\ reports[1].journeys = 2


QuestionEndpoints == {FIRST_QUESTION, NEXT_QUESTION}

(* C16: the calls of a session are sequential.  At most one call is in     *)
(* flight, and one is exactly while the session awaits; an analysis call   *)
(* directly follows the question call of its round, which has returned     *)
(* a question; the rounds' question calls come in order, NUM_ROUNDS of     *)
(* them at most; the final-roast call is issued once all rounds are over   *)
(* and is the last call.                                                   *)
C16_CallsSequential ==
    \A i \in DOMAIN user_tasks :
        LET s == user_tasks[i] IN
        /\ Len(s.replies) <= Len(s.calls)
        /\ Len(s.calls) <= Len(s.replies) + 1
        /\ (Len(s.calls) = Len(s.replies) + 1) <=> InFlight(s)
        /\ QuestionCalls(s) <= NUM_ROUNDS
        /\ \A k \in DOMAIN s.calls :
              /\ s.calls[k].endpoint = ANALYZE =>
                    /\ k > 1
                    /\ s.calls[k - 1].endpoint \in QuestionEndpoints
                    /\ s.replies[k - 1] = "ok200"
              /\ s.calls[k].endpoint = FINAL_ROAST =>
                    /\ k = Len(s.calls)
                    /\ QuestionCalls(s) = NUM_ROUNDS

(* The analysis call of the second round is in flight, the three calls     *)
(* before it have returned.                                                *)
C16_Witness ==
    \E i \in DOMAIN user_tasks :
        LET s == user_tasks[i] IN
        /\ s.pc = "a"
        /\ Len(s.calls) = 4 /\ Len(s.replies) = 3
        /\ s.calls[3].endpoint = NEXT_QUESTION

(* Questions the session holds when it issues its k-th call: one for every *)
(* earlier question call that came back with a question.                   *)
Accumulated(s, k) ==
    Cardinality({m \in 1..(k - 1) :
                    /\ s.calls[m].endpoint \in QuestionEndpoints
                    /\ s.replies[m] = "ok200"})

(* C17: the first call of a session, and no other, goes to                 *)
(* generate-first-question; every later question call goes to              *)
(* generate-next-question-bro and carries the questions and the answers    *)
(* gathered until then, as many of the ones as of the others.              *)
C17_QuestionCalls ==
    \A i \in DOMAIN user_tasks :
        LET s == user_tasks[i] IN
        \A k \in DOMAIN s.calls :
            /\ (s.calls[k].endpoint = FIRST_QUESTION) <=> (k = 1)
            /\ s.calls[k].endpoint \in QuestionEndpoints =>
                  /\ s.calls[k].questions = Accumulated(s, k)
                  /\ s.calls[k].answers = s.calls[k].questions

(* A third question call carrying two questions and two answers. *)
C17_Witness ==
    \E i \in DOMAIN user_tasks :
        LET s == user_tasks[i] IN
        /\ Len(s.calls) >= 5
        /\ s.calls[5].endpoint = NEXT_QUESTION
        /\ s.calls[5].questions = 2
        /\ s.calls[5].answers = 2


(* The counters and the journey list of results. *)
Tally(res) ==
    <<res.total_users, res.successful_journeys, res.failed_journeys,
      res.user_journeys>>

(* C18: the counters and the journey list of results have one writer, the  *)
(* loop of run_chaos_test once the gather of a batch has returned: they    *)
(* change in no other step, and no step of a session changes them.         *)
C18_SingleWriter ==
    /\ [][Tally(results') # Tally(results) =>
             /\ pc = "gather" /\ pc' = "sleep"
             /\ \A i \in DOMAIN user_tasks : user_tasks[i].pc = "done"
             /\ user_tasks' = <<>>]_vars
    /\ [][(\E i \in DOMAIN user_tasks :
               /\ InFlight(user_tasks[i])
               /\ i \in DOMAIN user_tasks'
               /\ user_tasks'[i] # user_tasks[i])
            => Tally(results') = Tally(results)]_vars

(* The first batch of two sessions has been merged and the second batch is *)
(* running: its sessions have returned in part, and nothing of them is in  *)
(* the results.                                                            *)
C18_Witness ==
    /\ pc = "gather" /\ tick = 2
    /\ Len(user_tasks) = 2
    /\ user_tasks[1].pc = "done" /\ InFlight(user_tasks[2])
    /\ results.total_users = 2
    /\ Len(results.user_journeys) = 2


(* Chaos tasks created so far, over the scenarios from the k-th on. *)
RECURSIVE Launched(_, _)
Launched(ct, k) ==
    IF k > Len(ChaosScenarios) THEN 0
    ELSE ct[ChaosScenarios[k].name].created + Launched(ct, k + 1)

EventsOf(n) ==
    Count(results.chaos_events, LAMBDA e : e.scenario = n)

(* C19: a chaos event is logged exactly when a chaos task is created: the  *)
(* events of a scenario are as many as the tasks created for it, so the    *)
(* log is as long as the number of tasks created; a tick logs a scenario   *)
(* once at most, and the log is in the order of the ticks.                 *)
C19_EventPerLaunch ==
    /\ \A n \in ScenarioNames : EventsOf(n) = chaos_tasks[n].created
    /\ Len(results.chaos_events) = Launched(chaos_tasks, 1)
    /\ \A a, b \in DOMAIN results.chaos_events :
          a < b =>
             /\ results.chaos_events[a].tick
                    <= results.chaos_events[b].tick
             /\ results.chaos_events[a].tick
                    = results.chaos_events[b].tick
                  => results.chaos_events[a].scenario
                        # results.chaos_events[b].scenario
    /\ \A a \in DOMAIN results.chaos_events :
          results.chaos_events[a].tick \in 1..tick

(* Two ticks: the first triggered two of the scenarios, the second all of  *)
(* them.                                                                   *)
C19_Witness ==
    /\ tick = 2
    /\ Len(results.chaos_events) = 2 + Len(ChaosScenarios)
    /\ results.chaos_events[1].scenario = "api_timeout"
    /\ results.chaos_events[2].scenario = USER_SPIKE
    /\ results.chaos_events[2].tick = 1
    /\ results.chaos_events[3].tick = 2
    /\ chaos_tasks[USER_SPIKE].created = 2
    /\ chaos_tasks["memory_pressure"].created = 1


(* Ticks whose gather has returned and whose batch has been merged. *)
CompletedTicks == IF pc = "gather" \/ exc THEN tick - 1 ELSE tick

(* C20: every session of a batch is in user_journeys exactly once from the *)
(* end of the tick that launched it, and not before: after n completed     *)
(* ticks user_journeys holds the n * users_per_minute sessions of these    *)
(* ticks, and the sessions not yet merged are those of the running tick.   *)
C20_EverySessionOnce ==
    /\ Len(results.user_journeys) = CompletedTicks * users_per_minute
    /\ \A t \in 1..CompletedTicks, i \in 1..users_per_minute :
          Cardinality({k \in DOMAIN results.user_journeys :
                          /\ results.user_journeys[k].tick = t
                          /\ results.user_journeys[k].slot = i}) = 1
    /\ \A k \in DOMAIN results.user_journeys :
          results.user_journeys[k].tick \in 1..CompletedTicks
    /\ \A i \in DOMAIN user_tasks :
          /\ user_tasks[i].tick = tick
          /\ user_tasks[i].slot = i

(* Two ticks of two users have completed: four journeys, the last one of   *)
(* the second session of the second tick.                                  *)
C20_Witness ==
    /\ pc = "sleep" /\ tick = 2 /\ users_per_minute = 2
    /\ Len(results.user_journeys) = 4
    /\ results.user_journeys[4].tick = 2
    /\ results.user_journeys[4].slot = 2


(* The entries of the response_times lists of the journeys: as many, and,  *)
(* a call lasting one unit of time, as much in sum.                        *)
RECURSIVE TimedCalls(_)
TimedCalls(journeys) ==
    IF journeys = <<>> THEN 0
    ELSE Head(journeys).response_times + TimedCalls(Tail(journeys))

(* The time spent in the journeys that ran to their end. *)
RECURSIVE TimeOfCompleted(_)
TimeOfCompleted(journeys) ==
    IF journeys = <<>> THEN 0
    ELSE (IF Head(journeys).errors = 0
            THEN Head(journeys).response_times ELSE 0)
         + TimeOfCompleted(Tail(journeys))

(* C21, as claimed: avg_response_time is the sum of the entries of all     *)
(* response_times lists divided by their number, 0 when there is none.     *)
C21_AvgOverCalls ==
    \A k \in DOMAIN reports :
        LET avg == reports[k].avg_response_time
            n == TimedCalls(results.user_journeys)
        IN /\ avg.den >= 1
           /\ avg.num * AtLeastOne(n) = n * avg.den

(* C21, amended: avg_response_time is the mean duration of a journey: the  *)
(* total_time of the journeys that ran to their end, a journey ended by an *)
(* exception counting for 0, divided by the number of all journeys, or by  *)
(* 1 when there is none.                                                   *)
C21_AvgOverJourneys ==
    \A k \in DOMAIN reports :
        LET avg == reports[k].avg_response_time IN
        /\ avg.num = TimeOfCompleted(results.user_journeys)
        /\ avg.den = AtLeastOne(Len(results.user_journeys))

(* The report of two journeys, one ended by an exception after its first   *)
(* call, one of CallsPerJourney calls.                                     *)
C21_Witness ==
    /\ Len(reports) = 1
    /\ Len(results.user_journeys) = 2
    /\ results.failed_journeys = 1
    /\ TimedCalls(results.user_journeys) = CallsPerJourney + 1
    /\ reports[1].avg_response_time = [num |-> CallsPerJourney, den |-> 2]


C24_TimestampBeforeEndTime ==
    \A e \in DOMAIN results.chaos_events :
        /\ StartTime <= results.chaos_events[e].timestamp
        /\ results.chaos_events[e].timestamp <= EndTime

(* C24, amended: the timestamp of every chaos event lies between the       *)
(* start_time of the run and the present, so within the run; it is taken   *)
(* after the loop test and may be later than end_time.  The log is in the  *)
(* order of the timestamps.                                                *)
C24_TimestampWithinRun ==
    /\ \A e \in DOMAIN results.chaos_events :
          /\ StartTime <= results.chaos_events[e].timestamp
          /\ results.chaos_events[e].timestamp <= clock.now
    /\ \A a, b \in DOMAIN results.chaos_events :
          a < b => results.chaos_events[a].timestamp
                      <= results.chaos_events[b].timestamp

(* An event stamped after end_time by a tick whose loop test passed. *)
C24_Witness ==
    /\ pc = "gather"
    /\ results.chaos_events # <<>>
    /\ results.chaos_events[1].timestamp > EndTime


(* Idle, Running, Finished: before the loop, from the first loop test to   *)
(* the report, from the report on (the run has returned its results or     *)
(* raised again what the loop raised).                                     *)
Phase ==
    CASE pc = "idle" -> 0
      [] pc \in {"returned", "raised"} -> 2
      [] OTHER -> 1

(* C23: a run never goes back to an earlier phase, and, if time passes and *)
(* every call comes back, it ends up Finished for good with its report     *)
(* written, whatever became of the journeys.                               *)
C23_RunFinishes ==
    /\ [][Phase' >= Phase]_vars
    /\ <>[](Phase = 2 /\ Len(reports) = 1)

(* A run in which every journey failed has returned, its report written. *)
C23_Witness ==
    /\ pc = "returned" /\ target = "garbled"
    /\ results.total_users > 0
    /\ results.failed_journeys = results.total_users
    /\ Len(reports) = 1
    /\ reports[1].success_rate.num = 0


----------------------------------------------------------------------------
(* _create_memory_pressure, one task of it: memory is the task, i the      *)
(* blocks appended so far, memory_hog the blocks the local list of its     *)
(* frame holds, how the way it ended.                                      *)
(*   pc: "start" created, not run; "sleep" at await asyncio.sleep(0.1);    *)
(*   "ended".                                                              *)

MEMORY_BLOCKS == 100

JOURNEY_ROUNDS == 5

SUCCESS_THRESHOLD == 70

VALIDATION_ROUNDS == 5

NewPressure ==
    [pc |-> "start", i |-> 0, memory_hog |-> 0, how |-> "running"]

(* Faulty variant of Unwind: the task is kept, and with it the exception   *)
(* that ended it, the traceback, the frame and the list.                   *)
UnwindTaskKept(m, how) ==
    [m EXCEPT !.pc = "ended", !.how = how]

(* The coroutine is left by an exception: its frame goes, and with the     *)
(* frame the only reference to the list, nothing holding on to the task    *)
(* that asyncio.create_task returned.                                      *)
Unwind(m, how) ==
    [m EXCEPT !.pc = "ended", !.how = how, !.memory_hog = 0]

(* memory_hog.append([0] * 100000), then the sleep; the allocation may     *)
(* raise MemoryError.  After the last round: del memory_hog.               *)
PressureStep(m, allocated) ==
    IF m.i = MEMORY_BLOCKS
      THEN [m EXCEPT !.pc = "ended", !.how = "completed", !.memory_hog = 0]
      ELSE IF allocated
             THEN [m EXCEPT !.pc = "sleep", !.i = @ + 1,
                            !.memory_hog = @ + 1]
             ELSE Unwind(m, "raised")

(* The task runs from where it stands to its next await or to its end. *)
PressureRun ==
    /\ memory.pc \in {"start", "sleep"}
    /\ \E allocated \in BOOLEAN :
          memory' = PressureStep(memory, allocated)
    /\ UNCHANGED <<engine, api, runner, ci, tester,
                   load, validator, quality, client, spike_calls>>

(* task.cancel(): CancelledError is thrown in at the await the task is     *)
(* suspended at; a task not yet run never runs.                            *)
PressureCancel ==
    /\ memory.pc \in {"start", "sleep"}
    /\ memory' = Unwind(memory, "cancelled")
    /\ UNCHANGED <<engine, api, runner, ci, tester,
                   load, validator, quality, client, spike_calls>>

InitMemory ==
    /\ EngineOff
    /\ memory = NewPressure
    /\ api = "none"
    /\ runner = "none"
    /\ ci = "none"
    /\ tester = "none"
    /\ load = "none"
    /\ validator = "none"
    /\ quality = "none"
    /\ client = "none"
    /\ spike_calls = "none"

NextMemory ==
    \/ PressureRun
    \/ PressureCancel

SpecMemory == InitMemory /\ [][NextMemory]_vars

(* C25: while it runs the memory-pressure task holds the blocks it has     *)
(* appended; once it has ended, by its last round, by an exception or by   *)
(* a cancellation, it holds none.                                          *)
C25_MemoryReleased ==
    /\ memory.pc = "ended" => memory.memory_hog = 0
    /\ memory.pc # "ended" => memory.memory_hog = memory.i

(* The task has been cancelled in a sleep, blocks allocated. *)
C25_Witness ==
    /\ memory.pc = "ended"
    /\ memory.how = "cancelled"
    /\ memory.i > 1
    /\ memory.memory_hog = 0


----------------------------------------------------------------------------
(* api/src/main.py: one request to an endpoint of the service, the         *)
(* completion the OpenAI client would give to it, and the response.        *)
(* Texts are kept by what the code tells apart in them.                    *)
(*   completion: "json_roast"   a JSON object with title, summary and      *)
(*                              insights                                   *)
(*               "json_object"  a JSON object without them                 *)
(*               "json_value"   JSON that is no object                     *)
(*               "text"         no JSON                                    *)
(*               "null"         a completion whose content is None         *)
(*               "error"        the completion call raises                 *)
(* choice is what random.choice picks when call_openai falls back.         *)

GENERATE_FINAL_ROAST == "generate-final-roast"

AVAILABLE_MODELS == {"gpt-4.1-nano", "gpt-4.1-mini", "gpt-4.1"}

Completions ==
    {"json_roast", "json_object", "json_value", "text", "null", "error"}

(* call_openai: fallbacks, without their emoji *)
FALLBACKS ==
    {"Yo, that's interesting but I need to think about this more",
     "Hmm, I'm seeing some patterns here that we should explore"}

ROAST_FIELDS == {"title", "summary", "insights"}

NoResponse == [status |-> 0, fields |-> {}]

(* FinalAnalysisRequest as FastAPI hands it over, or a body that pydantic  *)
(* rejects (well_formed false).                                            *)
Requests ==
    [well_formed : BOOLEAN,
     questions : 0..MaxHistory,
     answers : 0..MaxHistory,
     model : AVAILABLE_MODELS \cup {"other", "null"}]

(* Faulty variant of CallOpenai: without its try, the exception of the     *)
(* completion call or of None.strip() leaves call_openai.                  *)
CallOpenaiUnguarded(completion, choice) ==
    IF completion \in {"error", "null"} THEN "raise" ELSE completion

(* call_openai: the stripped completion; when create raises, or content    *)
(* is None and .strip() raises AttributeError, except Exception returns    *)
(* the fallback random.choice picks.  "raise" would be an exception        *)
(* leaving the function.                                                   *)
CallOpenai(completion, choice) ==
    IF completion \in {"error", "null"} THEN choice ELSE completion

(* str.__format__: a format specification str understands, or ValueError. *)
FormatStr(spec) ==
    IF spec = "" THEN "formatted" ELSE "ValueError"

(* The prompt of generate_final_roast, an f-string.  {context} is a field  *)
(* without format specification; the JSON example stands in single braces  *)
(* and so is a second field: the expression "title" and, after the colon,  *)
(* the rest of the example as its format specification.                    *)
RoastPrompt(request) ==
    IF FormatStr("") = "ValueError" \/ FormatStr("json example") = "ValueError"
      THEN "ValueError" ELSE "prompt"

(* json.loads(response), and the keys of what it gives. *)
JsonLoads(text) ==
    IF text \in {"text"} \cup FALLBACKS THEN "JSONDecodeError" ELSE text

Keys(value) ==
    CASE value = "json_roast" -> ROAST_FIELDS
      [] value = "json_object" -> {"other"}
      [] OTHER -> {}

Answer(status, fields) == [status |-> status, fields |-> fields]

(* generate_final_roast behind FastAPI *)
GenerateFinalRoast(request, completion, choice) ==
    IF ~request.well_formed THEN Answer(422, {"detail"})
    ELSE IF RoastPrompt(request) = "ValueError"
      THEN Answer(500, {"detail"})    \* except Exception: HTTPException
    ELSE LET analysis == JsonLoads(CallOpenai(completion, choice)) IN
         IF analysis = "JSONDecodeError"
           THEN Answer(200, ROAST_FIELDS)    \* the canned report
           ELSE Answer(200, Keys(analysis))  \* return analysis

(* The service answers the request. *)
Respond ==
    /\ api.response = NoResponse
    /\ api' = [api EXCEPT !.response =
                   GenerateFinalRoast(api.request, api.completion,
                                      api.choice)]
    /\ UNCHANGED <<engine, memory, runner, ci, tester,
                   load, validator, quality, client, spike_calls>>

InitApi ==
    /\ EngineOff
    /\ api \in [endpoint : {GENERATE_FINAL_ROAST},
                 request : Requests,
                 completion : Completions,
                 choice : FALLBACKS,
                 response : {NoResponse}]
    /\ memory = "none"
    /\ runner = "none"
    /\ ci = "none"
    /\ tester = "none"
    /\ load = "none"
    /\ validator = "none"
    /\ quality = "none"
    /\ client = "none"
    /\ spike_calls = "none"

NextApi == Respond

SpecApi == InitApi /\ [][NextApi]_vars

(* C26: POST /api/generate-final-roast answers a well-formed request with  *)
(* 200 and a body that has title, summary and insights, whatever the       *)
(* completion was: valid JSON, other text, or a failed call.               *)
C26_RoastHasFields ==
    (api.response # NoResponse /\ api.request.well_formed)
        => /\ api.response.status = 200
           /\ ROAST_FIELDS \subseteq api.response.fields


----------------------------------------------------------------------------
(* api/src/main.py: the two endpoints that answer with a question.  The    *)
(* response keeps the question that QuestionResponse carries.              *)

GENERATE_FIRST_QUESTION == "generate-first-question"

GENERATE_NEXT_QUESTION_BRO == "generate-next-question-bro"

QuestionAnswer(status, fields, question) ==
    [status |-> status, fields |-> fields, question |-> question]

(* question = await call_openai(messages, request.model);                  *)
(* return QuestionResponse(question=question), inside the try of the       *)
(* endpoint: an exception out of call_openai becomes HTTPException(500).   *)
AskOpenai(completion, choice) ==
    LET question == CallOpenai(completion, choice) IN
    IF question = "raise"
      THEN QuestionAnswer(500, {"detail"}, "none")
      ELSE QuestionAnswer(200, {"question"}, question)

(* generate_first_question behind FastAPI: a body pydantic rejects gets    *)
(* 422; the prompt is an f-string with the one field {request.prompt}.     *)
ApiGenerateFirstQuestion(request, completion, choice) ==
    IF ~request.well_formed THEN QuestionAnswer(422, {"detail"}, "none")
    ELSE IF FormatStr("") = "ValueError"
      THEN QuestionAnswer(500, {"detail"}, "none")
    ELSE AskOpenai(completion, choice)

(* generate_next_question_bro behind FastAPI: the context is built over    *)
(* zip(questions, answers), which stops at the shorter list, and the       *)
(* prompt has the fields {context} and {len(request.answers) + 1}.         *)
GenerateNextQuestionBro(request, completion, choice) ==
    IF ~request.well_formed THEN QuestionAnswer(422, {"detail"}, "none")
    ELSE IF FormatStr("") = "ValueError"
      THEN QuestionAnswer(500, {"detail"}, "none")
    ELSE AskOpenai(completion, choice)

(* The service answers the request for a question. *)
RespondQuestion ==
    /\ api.response = NoResponse
    /\ api' = [api EXCEPT !.response =
                   IF api.endpoint = GENERATE_FIRST_QUESTION
                     THEN ApiGenerateFirstQuestion(api.request, api.completion,
                                                   api.choice)
                     ELSE GenerateNextQuestionBro(api.request, api.completion,
                                                  api.choice)]
    /\ UNCHANGED <<engine, memory, runner, ci, tester,
                   load, validator, quality, client, spike_calls>>

InitQuestions ==
    /\ EngineOff
    /\ api \in [endpoint : {GENERATE_FIRST_QUESTION, GENERATE_NEXT_QUESTION_BRO},
                 request : Requests,
                 completion : Completions,
                 choice : FALLBACKS,
                 response : {NoResponse}]
    /\ memory = "none"
    /\ runner = "none"
    /\ ci = "none"
    /\ tester = "none"
    /\ load = "none"
    /\ validator = "none"
    /\ quality = "none"
    /\ client = "none"
    /\ spike_calls = "none"

NextQuestions == RespondQuestion

SpecQuestions == InitQuestions /\ [][NextQuestions]_vars

CompletionFails(completion) == completion \in {"error", "null"}

(* C40: call_openai never raises; when the completion call fails it        *)
(* returns one of its two fallback sentences, and both question endpoints  *)
(* answer every well-formed request with 200 and a question field, the     *)
(* fallback when the completion failed and the completion otherwise.       *)
C40_QuestionAlwaysAnswered ==
    (api.response # NoResponse /\ api.request.well_formed)
        => /\ api.response.status = 200
           /\ "question" \in api.response.fields
           /\ CompletionFails(api.completion)
                 => api.response.question \in FALLBACKS
           /\ ~CompletionFails(api.completion)
                 => api.response.question = api.completion

(* The completion call raised for a well-formed request to                 *)
(* generate-next-question-bro, and the answer is 200 with a fallback       *)
(* sentence as the question.                                               *)
C40_Witness ==
    /\ api.endpoint = GENERATE_NEXT_QUESTION_BRO
    /\ api.request.well_formed
    /\ api.completion = "error"
    /\ api.response # NoResponse
    /\ api.response.status = 200
    /\ api.response.question \in FALLBACKS

----------------------------------------------------------------------------
(* run_all_tests.py: main.  runner is where main stands (pc), what the     *)
(* health check found, how each command run so far ended (core, advanced), *)
(* the two counters and the exit code.                                     *)
(*   pc: "start"; "core" in the first for loop; "advanced" in the second;  *)
(*   "summary"; "exited" after sys.exit.                                   *)

CORE_TESTS ==
    << "basic_api_tests", "journey_test", "simple_load_test",
       "ai_validation_mock" >>

ADVANCED_TESTS == << "chaos_engineering" >>

(* How a command may end: return code 0, another return code, the timeout, *)
(* or subprocess.run raising something else.                               *)
CommandOutcomes == {"zero", "nonzero", "timeout", "error"}

(* run_command *)
RunCommand(outcome) == outcome = "zero"

NewRunner ==
    [pc |-> "start", health |-> "unchecked", core |-> <<>>,
     advanced |-> <<>>, passed |-> 0, failed |-> 0, exit_code |-> "unset"]

(* if not check_api_health(): sys.exit(1) *)
AfterHealthCheck(r, healthy) ==
    IF healthy
      THEN [r EXCEPT !.health = "up", !.pc = "core"]
      ELSE [r EXCEPT !.health = "down", !.pc = "exited", !.exit_code = 1]

(* One pass of `for test in tests`. *)
AfterCoreTest(r, outcome) ==
    LET success == RunCommand(outcome)
        ran == Append(r.core, outcome)
    IN [r EXCEPT !.core = ran,
                 !.passed = IF success THEN @ + 1 ELSE @,
                 !.failed = IF success THEN @ ELSE @ + 1,
                 !.pc = IF Len(ran) = Len(CORE_TESTS)
                          THEN "advanced" ELSE "core"]

(* Faulty variant of AfterAdvancedTest: the advanced test is counted as    *)
(* the core tests are.                                                     *)
AfterAdvancedTestCounted(r, outcome) ==
    LET success == RunCommand(outcome)
        ran == Append(r.advanced, outcome)
    IN [r EXCEPT !.advanced = ran,
                 !.passed = IF success THEN @ + 1 ELSE @,
                 !.failed = IF success THEN @ ELSE @ + 1,
                 !.pc = IF Len(ran) = Len(ADVANCED_TESTS)
                          THEN "summary" ELSE "advanced"]

(* One pass of `for test in advanced_tests`: the outcome is printed and    *)
(* stored, not counted.                                                    *)
AfterAdvancedTest(r, outcome) ==
    LET ran == Append(r.advanced, outcome)
    IN [r EXCEPT !.advanced = ran,
                 !.pc = IF Len(ran) = Len(ADVANCED_TESTS)
                          THEN "summary" ELSE "advanced"]

(* if passed == len(tests): exit_code = 0 else: exit_code = 1 *)
ExitCode(r) == IF r.passed = Len(CORE_TESTS) THEN 0 ELSE 1

CheckApiHealth ==
    /\ runner.pc = "start"
    /\ \E healthy \in BOOLEAN : runner' = AfterHealthCheck(runner, healthy)
    /\ UNCHANGED <<engine, memory, api, ci, tester,
                   load, validator, quality, client, spike_calls>>

RunCoreTest ==
    /\ runner.pc = "core"
    /\ \E outcome \in CommandOutcomes :
          runner' = AfterCoreTest(runner, outcome)
    /\ UNCHANGED <<engine, memory, api, ci, tester,
                   load, validator, quality, client, spike_calls>>

RunAdvancedTest ==
    /\ runner.pc = "advanced"
    /\ \E outcome \in CommandOutcomes :
          runner' = AfterAdvancedTest(runner, outcome)
    /\ UNCHANGED <<engine, memory, api, ci, tester,
                   load, validator, quality, client, spike_calls>>

(* The summary, the results file, sys.exit(exit_code). *)
Summarise ==
    /\ runner.pc = "summary"
    /\ runner' = [runner EXCEPT !.pc = "exited", !.exit_code = ExitCode(runner)]
    /\ UNCHANGED <<engine, memory, api, ci, tester,
                   load, validator, quality, client, spike_calls>>

InitRunner ==
    /\ EngineOff
    /\ runner = NewRunner
    /\ memory = "none"
    /\ api = "none"
    /\ ci = "none"
    /\ tester = "none"
    /\ load = "none"
    /\ validator = "none"
    /\ quality = "none"
    /\ client = "none"
    /\ spike_calls = "none"

NextRunner ==
    \/ CheckApiHealth
    \/ RunCoreTest
    \/ RunAdvancedTest
    \/ Summarise

SpecRunner == InitRunner /\ [][NextRunner]_vars

AllCorePassed(r) ==
    /\ Len(r.core) = Len(CORE_TESTS)
    /\ \A k \in DOMAIN r.core : r.core[k] = "zero"

(* C27: run_all_tests.py exits with 0 exactly when the health check passed *)
(* and each of the four core tests passed; passed and failed count the     *)
(* core tests run so far and nothing else, whatever the advanced test did. *)
C27_ExitCode ==
    /\ runner.pc = "exited" =>
          ((runner.exit_code = 0)
              <=> (runner.health = "up" /\ AllCorePassed(runner)))
    /\ runner.passed = Count(runner.core, LAMBDA o : o = "zero")
    /\ runner.passed + runner.failed = Len(runner.core)

(* The core tests passed, the advanced test ran into its timeout, and the  *)
(* exit code is 0.                                                         *)
C27_Witness ==
    /\ runner.pc = "exited"
    /\ runner.advanced = << "timeout" >>
    /\ runner.passed = Len(CORE_TESTS)
    /\ runner.exit_code = 0


----------------------------------------------------------------------------
(* test_api_ci.py: CIAPITester.run_all_tests and main.  ci is where the    *)
(* run stands (pc), how many times wait_for_api has polled, what it        *)
(* returned (ready), how each endpoint test run so far ended (ran),        *)
(* all_passed, the value returned and the exit code.                       *)
(*   pc: "waiting" in wait_for_api; "testing" in `for test in tests`;      *)
(*   "returned" from run_all_tests; "exited" after sys.exit.               *)

CI_TESTS ==
    << "test_models_endpoint", "test_question_generation",
       "test_answer_analysis", "test_next_question", "test_final_roast" >>

(* What a poll of GET / may give: status 200, another status, or a         *)
(* RequestException.                                                       *)
PollOutcomes == {"200", "other", "refused"}

(* How a call test() may end for the loop: a true value, a false one, or   *)
(* an exception.                                                           *)
TestOutcomes == {"true", "false", "raise"}

NewCi ==
    [pc |-> "waiting", polls |-> 0, ready |-> "unknown", ran |-> <<>>,
     all_passed |-> TRUE, result |-> "unset", exit_code |-> "unset"]

(* One pass of the while loop of wait_for_api. *)
AfterPoll(c, outcome) ==
    IF outcome = "200"
      THEN [c EXCEPT !.polls = @ + 1, !.ready = "yes", !.pc = "testing"]
      ELSE [c EXCEPT !.polls = @ + 1]

(* The while test fails: wait_for_api returns False and run_all_tests      *)
(* returns False.                                                          *)
AfterTimeout(c) ==
    [c EXCEPT !.ready = "no", !.pc = "returned", !.result = FALSE]

(* Faulty variant of AfterTest: the loop is left at the first test that    *)
(* does not succeed.                                                       *)
AfterTestStopping(c, outcome) ==
    LET ran == Append(c.ran, outcome)
        ok == c.all_passed /\ outcome = "true"
    IN IF Len(ran) = Len(CI_TESTS) \/ ~ok
         THEN [c EXCEPT !.ran = ran, !.all_passed = ok,
                        !.pc = "returned", !.result = ok]
         ELSE [c EXCEPT !.ran = ran, !.all_passed = ok]

(* One pass of `for test in tests`, and the return after the last one. *)
AfterTest(c, outcome) ==
    LET ran == Append(c.ran, outcome)
        ok == c.all_passed /\ outcome = "true"
    IN IF Len(ran) = Len(CI_TESTS)
         THEN [c EXCEPT !.ran = ran, !.all_passed = ok,
                        !.pc = "returned", !.result = ok]
         ELSE [c EXCEPT !.ran = ran, !.all_passed = ok]

Poll ==
    /\ ci.pc = "waiting"
    /\ ci.polls < MaxPolls
    /\ \E outcome \in PollOutcomes : ci' = AfterPoll(ci, outcome)
    /\ UNCHANGED <<engine, memory, api, runner, tester,
                   load, validator, quality, client, spike_calls>>

(* The first while test is made right after start_time is read, so the     *)
(* timeout is met only after a poll.                                       *)
WaitTimeout ==
    /\ ci.pc = "waiting"
    /\ ci.polls >= 1
    /\ ci' = AfterTimeout(ci)
    /\ UNCHANGED <<engine, memory, api, runner, tester,
                   load, validator, quality, client, spike_calls>>

RunCiTest ==
    /\ ci.pc = "testing"
    /\ \E outcome \in TestOutcomes : ci' = AfterTest(ci, outcome)
    /\ UNCHANGED <<engine, memory, api, runner, tester,
                   load, validator, quality, client, spike_calls>>

(* main: sys.exit(0 if success else 1) *)
CiExit ==
    /\ ci.pc = "returned"
    /\ ci' = [ci EXCEPT !.pc = "exited",
                         !.exit_code = IF ci.result THEN 0 ELSE 1]
    /\ UNCHANGED <<engine, memory, api, runner, tester,
                   load, validator, quality, client, spike_calls>>

InitCi ==
    /\ EngineOff
    /\ ci = NewCi
    /\ memory = "none"
    /\ api = "none"
    /\ runner = "none"
    /\ tester = "none"
    /\ load = "none"
    /\ validator = "none"
    /\ quality = "none"
    /\ client = "none"
    /\ spike_calls = "none"

NextCi ==
    \/ Poll
    \/ WaitTimeout
    \/ RunCiTest
    \/ CiExit

SpecCi == InitCi /\ [][NextCi]_vars

AllCiPassed(c) ==
    /\ Len(c.ran) = Len(CI_TESTS)
    /\ \A k \in DOMAIN c.ran : c.ran[k] = "true"

(* C28: run_all_tests returns True exactly when the API became ready and   *)
(* each of the five endpoint tests returned True; once the API is ready    *)
(* all five tests are run, whatever the earlier ones did; when the API     *)
(* never becomes ready no test is run and the result is False.  main       *)
(* exits with 0 exactly on True.                                           *)
C28_CiResult ==
    /\ ci.pc \in {"returned", "exited"} =>
          /\ ci.result <=> (ci.ready = "yes" /\ AllCiPassed(ci))
          /\ ci.ready = "yes" => Len(ci.ran) = Len(CI_TESTS)
          /\ ci.ready = "no" => (ci.ran = <<>> /\ ~ci.result)
    /\ ci.ready # "yes" => ci.ran = <<>>
    /\ ci.pc = "exited" => ((ci.exit_code = 0) <=> ci.result)

(* The first test raised, the second returned False, the three after them  *)
(* were run all the same, and the result is False.                         *)
C28_Witness ==
    /\ ci.pc = "returned"
    /\ ci.ran = << "raise", "false", "true", "true", "true" >>
    /\ ~ci.result


----------------------------------------------------------------------------
(* test_journey.py: LifeEvaluationTester.run_full_journey.  tester is      *)
(* where the journey stands (pc, with i the variable of its for loop),     *)
(* the three lists of the object, the endpoints asked so far (requests),   *)
(* what each of them answered (replies) and the value returned.            *)
(*   pc: "models", "first", "analyze", "next", "roast" name the call       *)
(*   that comes next; "returned"; "raised" when an exception left          *)
(*   run_full_journey.                                                     *)

TEST_SCENARIOS == {"get jacked", "get a girlfriend", "start a business"}

(* A reply is a status with a body that holds the key the caller reads     *)
(* ("json") or does not ("malformed"); status 0 is no reply at all,        *)
(* requests raising a ConnectionError.                                     *)
Replies ==
    [status : {200, 404, 422, 500}, body : {"json", "malformed"}]
        \cup {[status |-> 0, body |-> "none"]}

NewTester(goal, model) ==
    [goal |-> goal, model |-> model, questions |-> <<>>, answers |-> <<>>,
     analyses |-> <<>>, pc |-> "models", i |-> 0, requests |-> <<>>,
     sent |-> <<>>, replies |-> <<>>, result |-> "unset"]

(* Faulty variant of Outcome: every status is taken for a success. *)
OutcomeAnyStatus(reply) ==
    IF reply.status = 0 \/ reply.body = "malformed" THEN "raise" ELSE "ok"

(* What a method does with a reply: `if response.status_code == 200`,      *)
(* then the body is read, which raises when the key is not there; else     *)
(* return False.  No method catches an exception.                          *)
Outcome(reply) ==
    IF reply.status = 0 THEN "raise"
    ELSE IF reply.status # 200 THEN "fail"
    ELSE IF reply.body = "malformed" THEN "raise"
    ELSE "ok"

(* requests.get / requests.post and the reply.  The payload holds          *)
(* self.questions and self.answers as they are when the request is made:   *)
(* sent keeps their lengths.                                               *)
Asked(t, endpoint, reply) ==
    [t EXCEPT !.requests = Append(@, endpoint),
              !.sent = Append(@, [questions |-> Len(t.questions),
                                  answers |-> Len(t.answers)]),
              !.replies = Append(@, reply)]

(* A method returned False, or raised: run_full_journey is left.  A        *)
(* method returned True: ok is the journey after it.                       *)
Settled(t, reply, ok) ==
    CASE Outcome(reply) = "ok" -> ok
      [] Outcome(reply) = "fail" -> [t EXCEPT !.pc = "returned", !.result = FALSE]
      [] Outcome(reply) = "raise" -> [t EXCEPT !.pc = "raised"]

(* Faulty variant of Answered: the answer is not kept. *)
AnsweredNowhere(t, question_num) == t

(* Faulty variant of AsksNext: a next question is asked after every       *)
(* answer and the loop goes on.                                            *)
AsksNextAlways(i) == TRUE

(* run_full_journey: `if i < 4` before generate_next_question; the pass    *)
(* with i = 4 is the last of range(5).                                     *)
AsksNext(i) == i < 4

(* answer = self.simulate_answer(question_num); self.answers.append(answer) *)
Answered(t, question_num) ==
    [t EXCEPT !.answers = Append(@, question_num)]

TestModelsEndpoint ==
    /\ tester.pc = "models"
    /\ \E reply \in Replies :
          LET t == Asked(tester, "models", reply)
          IN tester' = Settled(t, reply, [t EXCEPT !.pc = "first"])
    /\ UNCHANGED <<engine, memory, api, runner, ci,
                   load, validator, quality, client, spike_calls>>

GenerateFirstQuestion ==
    /\ tester.pc = "first"
    /\ \E reply \in Replies :
          LET t == Asked(tester, "generate-first-question", reply)
          IN tester' =
               Settled(t, reply,
                       [t EXCEPT !.questions = Append(@, Len(@) + 1),
                                 !.pc = "analyze", !.i = 0])
    /\ UNCHANGED <<engine, memory, api, runner, ci,
                   load, validator, quality, client, spike_calls>>

(* answer_question_and_analyze(i + 1); after it `if i < 4` chooses         *)
(* between generate_next_question and the next pass of the loop, which     *)
(* ends with i = 4.                                                        *)
AnswerQuestionAndAnalyze ==
    /\ tester.pc = "analyze"
    /\ \E reply \in Replies :
          LET t == Asked(Answered(tester, tester.i + 1),
                         "analyze-answer-bro", reply)
          IN tester' =
               Settled(t, reply,
                       [t EXCEPT !.analyses = Append(@, t.i + 1),
                                 !.pc = IF AsksNext(t.i) THEN "next"
                                                         ELSE "roast"])
    /\ UNCHANGED <<engine, memory, api, runner, ci,
                   load, validator, quality, client, spike_calls>>

(* generate_next_question(i + 1): nothing is asked from question 5 on. *)
GenerateNextQuestion ==
    /\ tester.pc = "next"
    /\ IF tester.i + 1 >= JOURNEY_ROUNDS
         THEN tester' = [tester EXCEPT !.pc = "analyze", !.i = @ + 1]
         ELSE \E reply \in Replies :
                LET t == Asked(tester, "generate-next-question-bro", reply)
                IN tester' =
                     Settled(t, reply,
                             [t EXCEPT !.questions = Append(@, Len(@) + 1),
                                       !.pc = "analyze", !.i = @ + 1])
    /\ UNCHANGED <<engine, memory, api, runner, ci,
                   load, validator, quality, client, spike_calls>>

TesterGenerateFinalRoast ==
    /\ tester.pc = "roast"
    /\ \E reply \in Replies :
          LET t == Asked(tester, "generate-final-roast", reply)
          IN tester' =
               Settled(t, reply, [t EXCEPT !.pc = "returned", !.result = TRUE])
    /\ UNCHANGED <<engine, memory, api, runner, ci,
                   load, validator, quality, client, spike_calls>>

InitTester ==
    /\ EngineOff
    /\ \E goal \in TEST_SCENARIOS \cup {"custom"}, model \in AVAILABLE_MODELS :
          tester = NewTester(goal, model)
    /\ memory = "none"
    /\ api = "none"
    /\ runner = "none"
    /\ ci = "none"
    /\ load = "none"
    /\ validator = "none"
    /\ quality = "none"
    /\ client = "none"
    /\ spike_calls = "none"

NextTester ==
    \/ TestModelsEndpoint
    \/ GenerateFirstQuestion
    \/ AnswerQuestionAndAnalyze
    \/ GenerateNextQuestion
    \/ TesterGenerateFinalRoast

SpecTester == InitTester /\ [][NextTester]_vars

Succeeded(reply) == reply.status = 200 /\ reply.body = "json"

EveryRequestSucceeded ==
    \A k \in DOMAIN tester.replies : Succeeded(tester.replies[k])

JourneyOrder ==
    << "models", "generate-first-question",
       "analyze-answer-bro", "generate-next-question-bro",
       "analyze-answer-bro", "generate-next-question-bro",
       "analyze-answer-bro", "generate-next-question-bro",
       "analyze-answer-bro", "generate-next-question-bro",
       "analyze-answer-bro", "generate-final-roast" >>

(* C29: while every request succeeds, run_full_journey asks models, the    *)
(* first question, four times (analyze, next question), analyze and the    *)
(* final roast, in this order; it returns after the twelfth and not        *)
(* before, with True and 5 questions, 5 answers and 5 analyses.            *)
C29_JourneyOrder ==
    EveryRequestSucceeded =>
      /\ Len(tester.requests) <= Len(JourneyOrder)
      /\ tester.requests = SubSeq(JourneyOrder, 1, Len(tester.requests))
      /\ tester.pc # "raised"
      /\ (tester.pc = "returned") <=> (Len(tester.requests) = Len(JourneyOrder))
      /\ tester.pc = "returned" =>
            /\ tester.result
            /\ Len(tester.questions) = 5
            /\ Len(tester.answers) = 5
            /\ Len(tester.analyses) = 5

(* A journey of twelve successful requests has returned. *)
C29_Witness ==
    /\ EveryRequestSucceeded
    /\ tester.pc = "returned"
    /\ Len(tester.requests) = 12

FailedStatus(reply) == reply.status \notin {0, 200}

(* C30: a request answered with a status other than 200 is the last one    *)
(* of the journey: every request before it got a 200, none is made after   *)
(* it, and run_full_journey has returned False.                            *)
C30_StopsAtFirstFailure ==
    \A k \in DOMAIN tester.replies :
        FailedStatus(tester.replies[k]) =>
          /\ k = Len(tester.replies)
          /\ Len(tester.requests) = k
          /\ \A j \in 1..(k - 1) : tester.replies[j].status = 200
          /\ tester.pc = "returned"
          /\ ~tester.result

(* The third analyze request got a 500 after six successes: the journey   *)
(* returned False with three answers and the analyses of two.              *)
C30_Witness ==
    /\ Len(tester.replies) = 7
    /\ tester.replies[7].status = 500
    /\ tester.requests[7] = "analyze-answer-bro"
    /\ tester.pc = "returned"
    /\ Len(tester.answers) = 3
    /\ Len(tester.analyses) = 2

(* C38: all along run_full_journey the lists obey                          *)
(* len(analyses) <= len(answers) <= len(questions) <= len(answers) + 1     *)
(* and len(questions) <= 5, and every analyze request and every            *)
(* final-roast request is sent with as many questions as answers.          *)
C38_ListLengths ==
    /\ Len(tester.analyses) <= Len(tester.answers)
    /\ Len(tester.answers) <= Len(tester.questions)
    /\ Len(tester.questions) <= Len(tester.answers) + 1
    /\ Len(tester.questions) <= 5
    /\ \A k \in DOMAIN tester.requests :
          tester.requests[k] \in {"analyze-answer-bro", "generate-final-roast"}
            => tester.sent[k].questions = tester.sent[k].answers

(* The final roast was asked with 5 questions and 5 answers, after an      *)
(* analyze request of the first round that carried 1 and 1.                *)
C38_Witness ==
    /\ Len(tester.requests) = 12
    /\ tester.requests[12] = "generate-final-roast"
    /\ tester.sent[12] = [questions |-> 5, answers |-> 5]
    /\ tester.requests[3] = "analyze-answer-bro"
    /\ tester.sent[3] = [questions |-> 1, answers |-> 1]
    /\ Len(tester.analyses) = 5


----------------------------------------------------------------------------
(* tests/simple_chaos_test.py: simple_load_test.  load is the call: its    *)
(* arguments, where it stands (pc), the batches launched, the coroutines   *)
(* of the batch gather is waiting for (tasks), the results counted so far  *)
(* by what they were (seen), the two counters and the value returned.      *)
(*   pc: "loop" at the while test; "gather"; "returned".                   *)
(*   a task: "question" and "analysis" name the request it waits for;      *)
(*   "True", "False" and "exception" are what gather has for it.           *)

(* What a request of test_single_user_journey may come to: status 200,     *)
(* another status, an exception the journey catches, or one it does not    *)
(* catch (a CancelledError, or one raised outside its try).                *)
RequestOutcomes == {"ok200", "bad_status", "error", "escapes"}

(* test_single_user_journey from one request to the next *)
JourneyAfter(task, outcome) ==
    CASE outcome = "escapes" -> "exception"
      [] outcome = "ok200" -> IF task = "question" THEN "analysis" ELSE "True"
      [] OTHER -> "False"

Waiting(task) == task \in {"question", "analysis"}

NewLoad(concurrent_users, duration_seconds) ==
    [concurrent_users |-> concurrent_users,
     duration_seconds |-> duration_seconds,
     pc |-> "loop", batches |-> 0, tasks |-> <<>>,
     seen |-> [r \in {"True", "False", "exception"} |-> 0],
     successful_journeys |-> 0, failed_journeys |-> 0, result |-> "unset"]

(* while time.time() - start_time < duration_seconds: the values the test  *)
(* may take.                                                               *)
LoadLoopTest(l) ==
    IF l.duration_seconds = 0 THEN {FALSE} ELSE BOOLEAN

(* Faulty variant of IsSuccess: `if result:`. *)
IsSuccessTruthy(result) == result \in {"True", "exception"}

(* if result is True *)
IsSuccess(result) == result = "True"

(* for result in results: the counters after the batch *)
CountResults(l) ==
    LET succeeded == Count(l.tasks, IsSuccess)
    IN [l EXCEPT
          !.successful_journeys = @ + succeeded,
          !.failed_journeys = @ + (Len(l.tasks) - succeeded),
          !.seen = [r \in DOMAIN @ |->
                      @[r] + Count(l.tasks, LAMBDA t : t = r)]]

(* success_rate, as the fraction num / den *)
LoadSuccessRate(l) ==
    LET total_users == l.successful_journeys + l.failed_journeys
    IN IF total_users > 0
         THEN [num |-> l.successful_journeys * PERCENT, den |-> total_users]
         ELSE [num |-> 0, den |-> 1]

(* Faulty variant of AboveThreshold: the threshold itself passes. *)
AtThreshold(rate) == rate.num >= SUCCESS_THRESHOLD * rate.den

(* return success_rate > 70 *)
AboveThreshold(rate) == rate.num > SUCCESS_THRESHOLD * rate.den

(* The while test holds: the batch is made and gather is awaited. *)
LoadBatch ==
    /\ load.pc = "loop"
    /\ TRUE \in LoadLoopTest(load)
    /\ load.batches < MaxBatches
    /\ load' = [load EXCEPT
                   !.batches = @ + 1,
                   !.tasks = [i \in 1..load.concurrent_users |-> "question"],
                   !.pc = "gather"]
    /\ UNCHANGED <<engine, memory, api, runner, ci, tester,
                   validator, quality, client, spike_calls>>

(* A request of journey i ends. *)
JourneyStep(i) ==
    /\ load.pc = "gather"
    /\ Waiting(load.tasks[i])
    /\ \E outcome \in RequestOutcomes :
          load' = [load EXCEPT !.tasks[i] = JourneyAfter(@, outcome)]
    /\ UNCHANGED <<engine, memory, api, runner, ci, tester,
                   validator, quality, client, spike_calls>>

(* gather returns: the results are counted, then asyncio.sleep(2). *)
LoadCount ==
    /\ load.pc = "gather"
    /\ \A i \in DOMAIN load.tasks : ~Waiting(load.tasks[i])
    /\ load' = [CountResults(load) EXCEPT !.tasks = <<>>, !.pc = "loop"]
    /\ UNCHANGED <<engine, memory, api, runner, ci, tester,
                   validator, quality, client, spike_calls>>

(* The while test fails: the rate and the value returned. *)
LoadReturn ==
    /\ load.pc = "loop"
    /\ FALSE \in LoadLoopTest(load)
    /\ load' = [load EXCEPT !.pc = "returned",
                            !.result = AboveThreshold(LoadSuccessRate(load))]
    /\ UNCHANGED <<engine, memory, api, runner, ci, tester,
                   validator, quality, client, spike_calls>>

InitLoad ==
    /\ EngineOff
    /\ \E concurrent_users \in 0..MaxLoadUsers, duration_seconds \in {0, 10} :
          load = NewLoad(concurrent_users, duration_seconds)
    /\ memory = "none"
    /\ api = "none"
    /\ runner = "none"
    /\ ci = "none"
    /\ tester = "none"
    /\ validator = "none"
    /\ quality = "none"
    /\ client = "none"
    /\ spike_calls = "none"

NextLoad ==
    \/ LoadBatch
    \/ \E i \in DOMAIN load.tasks : JourneyStep(i)
    \/ LoadCount
    \/ LoadReturn

SpecLoad == InitLoad /\ [][NextLoad]_vars

(* Batches whose results have been counted. *)
BatchesCounted(l) == IF l.pc = "gather" THEN l.batches - 1 ELSE l.batches

(* C31: in simple_load_test every batch is concurrent_users journeys, a    *)
(* batch is launched only when no journey of the one before is still       *)
(* running, and every result is counted once: successful_journeys is the   *)
(* number of results that were True, failed_journeys the number of False   *)
(* results and exceptions, and their sum is batches * concurrent_users.    *)
C31_BatchesCounted ==
    /\ [](/\ load.pc = "gather" => Len(load.tasks) = load.concurrent_users
          /\ load.successful_journeys = load.seen["True"]
          /\ load.failed_journeys = load.seen["False"] + load.seen["exception"]
          /\ load.successful_journeys + load.failed_journeys
                = BatchesCounted(load) * load.concurrent_users)
    /\ [][load.batches' > load.batches =>
            /\ load.tasks = <<>>
            /\ load'.batches = load.batches + 1]_vars

(* Two batches of two journeys counted: one True, two False, and one       *)
(* journey that raised.                                                    *)
C31_Witness ==
    /\ load.pc = "returned"
    /\ load.concurrent_users = 2
    /\ load.batches = 2
    /\ load.seen["True"] = 1
    /\ load.seen["exception"] = 1
    /\ load.failed_journeys = 3

(* C32: simple_load_test returns True exactly when more than 70 in 100 of  *)
(* the counted journeys succeeded, so not at 70 in 100; with no journey    *)
(* counted the rate is 0 over a denominator that is not 0, and the value   *)
(* is False.                                                               *)
C32_AboveSeventy ==
    load.pc = "returned" =>
      LET total == load.successful_journeys + load.failed_journeys IN
      /\ load.result <=> (100 * load.successful_journeys > 70 * total)
      /\ LoadSuccessRate(load).den # 0
      /\ total = 0 => ~load.result
      /\ load.duration_seconds = 0 => total = 0

(* 7 journeys of 10 succeeded: False. *)
C32_Witness ==
    /\ load.pc = "returned"
    /\ load.successful_journeys = 7
    /\ load.failed_journeys = 3
    /\ ~load.result


----------------------------------------------------------------------------
(* tests/ai_test_generator.py: AITestValidator.run_comprehensive_          *)
(* validation.  validator is the call: where it stands (pc), the loop      *)
(* variable i and the end of its range (rounds), its local lists, the      *)
(* local final_roast, the keys of quality_scores, whether issues_found     *)
(* has an "API Error" entry, the requests sent with the lengths of the     *)
(* lists they carried, the replies, and how the call ended.                *)
(*   pc: "first", "analyze", "next", "roast" name the request that comes   *)
(*   next; "finish" is the code after the async with; "done".              *)
(*   final_roast: "unbound" until line 400 assigns {}, then "empty", then  *)
(*   "received" when the 200 body replaced it.                             *)

(* A reply: a status and a body that is a JSON object with the key read    *)
(* ("json"), a JSON object without it ("no_key"), or no JSON object        *)
(* ("not_json"); status 0 is no reply, the request raising.                *)
ValidatorReplies ==
    [status : {200, 404, 500}, body : {"json", "no_key", "not_json"}]
        \cup {[status |-> 0, body |-> "none"]}

(* What the code under `async with session.post(...) as resp` does with a  *)
(* reply: with status 200 resp.json() and data.get(key, ""), which raise   *)
(* when the body is no JSON object; another status is passed over.         *)
ValidatorOutcome(reply) ==
    IF reply.status = 0 THEN "raise"
    ELSE IF reply.status # 200 THEN "skip"
    ELSE IF reply.body = "not_json" THEN "raise"
    ELSE "ok"

NewValidator ==
    [pc |-> "first", i |-> 0, rounds |-> 0,
     questions |-> <<>>, answers |-> <<>>, analyses |-> <<>>,
     final_roast |-> "unbound", quality_scores |-> {},
     api_error |-> FALSE, requests |-> <<>>, replies |-> <<>>,
     outcome |-> "running"]

(* session.post with the json the request carries, and the reply. *)
Posted(v, endpoint, reply) ==
    [v EXCEPT !.requests = Append(@, [endpoint |-> endpoint,
                                      questions |-> Len(v.questions),
                                      answers |-> Len(v.answers)]),
              !.replies = Append(@, reply)]

(* except Exception as e: issues_found.append(f"API Error: {str(e)}") *)
Caught(v) == [v EXCEPT !.api_error = TRUE, !.pc = "finish"]

Min(a, b) == IF a <= b THEN a ELSE b

(* for i in range(min(5, len(questions))): the range is made once, when    *)
(* the loop is entered.                                                    *)
LoopRange(v) == Min(VALIDATION_ROUNDS, Len(v.questions))

(* The for statement is reached. *)
EnterLoop(v) ==
    LET rounds == LoopRange(v)
    IN IF rounds > 0
         THEN [v EXCEPT !.rounds = rounds, !.i = 0, !.pc = "analyze"]
         ELSE [v EXCEPT !.rounds = rounds, !.pc = "roast"]

(* The end of a pass of the loop. *)
NextPass(v) ==
    IF v.i + 1 < v.rounds
      THEN [v EXCEPT !.i = @ + 1, !.pc = "analyze"]
      ELSE [v EXCEPT !.pc = "roast"]

(* The first question. *)
ValidatorFirstQuestion ==
    /\ validator.pc = "first"
    /\ \E reply \in ValidatorReplies :
          LET v == Posted(validator, "generate-first-question", reply)
          IN validator' =
               CASE ValidatorOutcome(reply) = "raise" -> Caught(v)
                 [] ValidatorOutcome(reply) = "skip" -> EnterLoop(v)
                 [] ValidatorOutcome(reply) = "ok" ->
                      EnterLoop([v EXCEPT
                          !.questions = Append(@, Len(@) + 1),
                          !.quality_scores = @ \cup {"first_question"}])
    /\ UNCHANGED <<engine, memory, api, runner, ci, tester,
                   load, quality, client, spike_calls>>

(* generate_realistic_answers, which catches what the completion raises,   *)
(* answers.append(answer), then the analysis; `if i < 4` follows.          *)
ValidatorAnalyze ==
    /\ validator.pc = "analyze"
    /\ \E reply \in ValidatorReplies :
          LET answered == [validator EXCEPT
                             !.answers = Append(@, validator.i + 1)]
              v == Posted(answered, "analyze-answer-bro", reply)
              passed == IF v.i < 4 THEN [v EXCEPT !.pc = "next"]
                                   ELSE NextPass(v)
          IN validator' =
               CASE ValidatorOutcome(reply) = "raise" -> Caught(v)
                 [] ValidatorOutcome(reply) = "skip" -> passed
                 [] ValidatorOutcome(reply) = "ok" ->
                      [passed EXCEPT
                          !.analyses = Append(@, v.i + 1),
                          !.quality_scores = @ \cup {"analysis"}]
    /\ UNCHANGED <<engine, memory, api, runner, ci, tester,
                   load, quality, client, spike_calls>>

(* The next question, the last statement of a pass. *)
ValidatorNextQuestion ==
    /\ validator.pc = "next"
    /\ \E reply \in ValidatorReplies :
          LET v == Posted(validator, "generate-next-question-bro", reply)
          IN validator' =
               CASE ValidatorOutcome(reply) = "raise" -> Caught(v)
                 [] ValidatorOutcome(reply) = "skip" -> NextPass(v)
                 [] ValidatorOutcome(reply) = "ok" ->
                      NextPass([v EXCEPT
                          !.questions = Append(@, Len(@) + 1),
                          !.quality_scores = @ \cup {"question"}])
    /\ UNCHANGED <<engine, memory, api, runner, ci, tester,
                   load, quality, client, spike_calls>>

(* final_roast = {}, then the final roast. *)
ValidatorFinalRoast ==
    /\ validator.pc = "roast"
    /\ \E reply \in ValidatorReplies :
          LET bound == [validator EXCEPT !.final_roast = "empty"]
              v == Posted(bound, "generate-final-roast", reply)
          IN validator' =
               CASE ValidatorOutcome(reply) = "raise" -> Caught(v)
                 [] ValidatorOutcome(reply) = "skip" -> [v EXCEPT !.pc = "finish"]
                 [] ValidatorOutcome(reply) = "ok" ->
                      [v EXCEPT !.final_roast = "received",
                                !.quality_scores = @ \cup {"final_roast"},
                                !.pc = "finish"]
    /\ UNCHANGED <<engine, memory, api, runner, ci, tester,
                   load, quality, client, spike_calls>>

(* The recommendations and ValidationResult(..., final_roast=final_roast,  *)
(* ...): reading a local that was never assigned raises                    *)
(* UnboundLocalError.                                                      *)
ValidatorReturn ==
    /\ validator.pc = "finish"
    /\ validator' = [validator EXCEPT
                       !.pc = "done",
                       !.outcome = IF validator.final_roast = "unbound"
                                     THEN "raised" ELSE "returned"]
    /\ UNCHANGED <<engine, memory, api, runner, ci, tester,
                   load, quality, client, spike_calls>>

InitValidator ==
    /\ EngineOff
    /\ validator = NewValidator
    /\ memory = "none"
    /\ api = "none"
    /\ runner = "none"
    /\ ci = "none"
    /\ tester = "none"
    /\ load = "none"
    /\ quality = "none"
    /\ client = "none"
    /\ spike_calls = "none"

NextValidator ==
    \/ ValidatorFirstQuestion
    \/ ValidatorAnalyze
    \/ ValidatorNextQuestion
    \/ ValidatorFinalRoast
    \/ ValidatorReturn

SpecValidator == InitValidator /\ [][NextValidator]_vars

EveryCallReturned200 ==
    \A k \in DOMAIN validator.replies :
        /\ validator.replies[k].status = 200
        /\ validator.replies[k].body = "json"

(* C33: when every call is answered with 200, a call of                    *)
(* run_comprehensive_validation that has ended returned a result with 5    *)
(* questions, 5 answers and 5 analyses, and its final-roast request        *)
(* carried as many questions as answers.                                   *)
C33_FullJourney ==
    (validator.pc = "done" /\ EveryCallReturned200) =>
      /\ validator.outcome = "returned"
      /\ Len(validator.questions) = 5
      /\ Len(validator.answers) = 5
      /\ Len(validator.analyses) = 5
      /\ \A k \in DOMAIN validator.requests :
            validator.requests[k].endpoint = "generate-final-roast" =>
              validator.requests[k].questions = validator.requests[k].answers

(* C34: a call of run_comprehensive_validation that has ended returned a   *)
(* ValidationResult, and when a request raised, at whatever point of the   *)
(* journey, issues_found has an "API Error" entry.                         *)
C34_AlwaysReturns ==
    validator.pc = "done" =>
      /\ validator.outcome = "returned"
      /\ (\E k \in DOMAIN validator.replies :
             ValidatorOutcome(validator.replies[k]) = "raise")
            => validator.api_error


----------------------------------------------------------------------------
(* tests/ai_test_generator.py: validate_question_quality,                  *)
(* validate_analysis_quality and validate_final_roast.  quality is one     *)
(* call: the method, its input by what the method tells apart in it, and   *)
(* the result.  A score is the exact fraction num / den, and den = 0       *)
(* stands for a ZeroDivisionError.                                         *)

Tenths(t) == [num |-> t, den |-> 10]

Plus(a, b) ==
    [num |-> a.num * b.den + b.num * a.den, den |-> a.den * b.den]

(* 0.3 * (matches / len(expected)) *)
ThreeTenthsOf(matches, expected) ==
    [num |-> 3 * matches, den |-> 10 * expected]

(* score = max(0.0, min(1.0, score)) *)
Normalize(score) ==
    IF score.den = 0 THEN score
    ELSE IF score.num < 0 THEN [num |-> 0, den |-> 1]
    ELSE IF score.num > score.den THEN [num |-> 1, den |-> 1]
    ELSE score

Pending == [outcome |-> "pending", score |-> Tenths(0)]

(* return score, issues; or the exception that left the method *)
Returned(score) ==
    IF score.den = 0
      THEN [outcome |-> "ZeroDivisionError", score |-> score]
      ELSE [outcome |-> "returned", score |-> score]

Raised(error) == [outcome |-> error, score |-> Tenths(0)]

(* A question: the class of its number of words, the number of expected    *)
(* themes of the scenario and of those found in it, whether it has an      *)
(* honesty indicator, whether it has a vague word.                         *)
QuestionInputs ==
    { q \in [words : {"few", "fit", "many"},
              themes : 0..MaxThemes,
              theme_matches : 0..MaxThemes,
              honest : BOOLEAN,
              vague : BOOLEAN] : q.theme_matches <= q.themes }

ValidateQuestionQualityOf(q) ==
    LET length == CASE q.words = "few" -> Tenths(-2)
                    [] q.words = "many" -> Tenths(-1)
                    [] q.words = "fit" -> Tenths(2)
        themes == IF q.theme_matches > 0
                    THEN ThreeTenthsOf(q.theme_matches, q.themes)
                    ELSE Tenths(0)
        honesty == IF q.honest THEN Tenths(3) ELSE Tenths(0)
        vague == IF q.vague THEN Tenths(-1) ELSE Tenths(0)
    IN Returned(Normalize(Plus(Plus(Plus(length, themes), honesty), vague)))

(* An analysis: the expected keywords of the scenario and those found,     *)
(* honesty indicator, emoji, 20 to 50 words, the red flags of the          *)
(* scenario and whether one of them is found.                              *)
AnalysisInputs ==
    { a \in [keywords : 0..MaxThemes,
              keyword_matches : 0..MaxThemes,
              honest : BOOLEAN,
              emoji : BOOLEAN,
              words_fit : BOOLEAN,
              red_flags : 0..1,
              red_flag_identified : BOOLEAN] :
        /\ a.keyword_matches <= a.keywords
        /\ a.red_flag_identified => a.red_flags > 0 }

ValidateAnalysisQualityOf(a) ==
    LET keywords == IF a.keyword_matches > 0
                      THEN ThreeTenthsOf(a.keyword_matches, a.keywords)
                      ELSE Tenths(0)
        honesty == IF a.honest THEN Tenths(3) ELSE Tenths(0)
        emoji == IF a.emoji THEN Tenths(1) ELSE Tenths(0)
        length == IF a.words_fit THEN Tenths(2) ELSE Tenths(0)
        flag == IF a.red_flag_identified THEN Tenths(1) ELSE Tenths(0)
    IN Returned(Normalize(
          Plus(Plus(Plus(Plus(keywords, honesty), emoji), length), flag)))

(* An entry of roast["insights"]: a value that is no string ("object"),    *)
(* or a string by the marks it earns: none ("plain"), an action word       *)
(* ("actionable"), or an action word, more than 8 words and a              *)
(* psychological word ("thorough").                                        *)
InsightKinds == {"object", "plain", "actionable", "thorough"}

(* insight_score, in tenths *)
InsightScore(insight) ==
    CASE insight = "actionable" -> 5
      [] insight = "thorough" -> 10
      [] OTHER -> 0

RECURSIVE SumInsightScores(_)
SumInsightScores(insights) ==
    IF insights = <<>> THEN 0
    ELSE InsightScore(Head(insights)) + SumInsightScores(Tail(insights))

RECURSIVE Sequences(_, _)
Sequences(S, n) ==
    IF n = 0 THEN {<<>>}
    ELSE LET shorter == Sequences(S, n - 1)
         IN shorter \cup { Append(s, x) : s \in {t \in shorter : Len(t) = n - 1},
                                          x \in S }

(* A roast, the JSON object the service answered:                          *)
(*   title: no such key ("missing"), null, a string of less than 10        *)
(*     characters ("short"), a longer one ("plain"), one with "report"     *)
(*     and one of the four emojis ("branded");                             *)
(*   summary: "missing", "short", or "fit" for 10 characters and more;     *)
(*   insights: "missing", a string ("text"), or a list of entries.         *)
RoastInputs ==
    [title : {"missing", "null", "short", "plain", "branded"},
     summary : {"missing", "short", "fit"},
     insights : [kind : {"missing", "text"}, entries : {<<>>}]
                   \cup [kind : {"list"},
                         entries : Sequences(InsightKinds, MaxInsights)]]

(* The for loop over required_fields: the fields that earn 0.2. *)
FieldsPresent(roast) ==
    (IF roast.title \in {"plain", "branded"} THEN 1 ELSE 0)
      + (IF roast.summary = "fit" THEN 1 ELSE 0)
      + (IF roast.insights.kind = "text"
            \/ (roast.insights.kind = "list" /\ roast.insights.entries # <<>>)
           THEN 1 ELSE 0)

ValidateFinalRoastOf(roast) ==
    LET fields == Tenths(2 * FieldsPresent(roast))
        entries == roast.insights.entries
        checked == SubSeq(entries, 1, Min(5, Len(entries)))
        enough == roast.insights.kind = "list" /\ Len(entries) >= 3
        \* 0.2 for the list, 0.2 * np.mean(insight_scores)
        insights == IF enough
                      THEN Plus(Tenths(2),
                                [num |-> 2 * SumInsightScores(checked),
                                 den |-> 100 * Len(checked)])
                      ELSE Tenths(0)
        title == IF roast.title = "branded" THEN Tenths(1) ELSE Tenths(0)
    IN IF enough /\ \E k \in DOMAIN checked : checked[k] = "object"
         THEN Raised("AttributeError")    \* insight.lower()
       ELSE IF roast.title = "null"
         THEN Raised("AttributeError")    \* title.lower()
       ELSE Returned(Normalize(Plus(Plus(fields, insights), title)))

ValidateQuestionQuality ==
    /\ quality.method = "validate_question_quality"
    /\ quality.result = Pending
    /\ quality' = [quality EXCEPT
                     !.result = ValidateQuestionQualityOf(quality.input)]
    /\ UNCHANGED <<engine, memory, api, runner, ci, tester,
                   load, validator, client, spike_calls>>

ValidateAnalysisQuality ==
    /\ quality.method = "validate_analysis_quality"
    /\ quality.result = Pending
    /\ quality' = [quality EXCEPT
                     !.result = ValidateAnalysisQualityOf(quality.input)]
    /\ UNCHANGED <<engine, memory, api, runner, ci, tester,
                   load, validator, client, spike_calls>>

ValidateFinalRoast ==
    /\ quality.method = "validate_final_roast"
    /\ quality.result = Pending
    /\ quality' = [quality EXCEPT
                     !.result = ValidateFinalRoastOf(quality.input)]
    /\ UNCHANGED <<engine, memory, api, runner, ci, tester,
                   load, validator, client, spike_calls>>

InitQuality ==
    /\ EngineOff
    /\ quality \in
          [method : {"validate_question_quality"}, input : QuestionInputs,
           result : {Pending}]
          \cup [method : {"validate_analysis_quality"}, input : AnalysisInputs,
                result : {Pending}]
          \cup [method : {"validate_final_roast"}, input : RoastInputs,
                result : {Pending}]
    /\ memory = "none"
    /\ api = "none"
    /\ runner = "none"
    /\ ci = "none"
    /\ tester = "none"
    /\ load = "none"
    /\ validator = "none"
    /\ client = "none"
    /\ spike_calls = "none"

NextQuality ==
    \/ ValidateQuestionQuality
    \/ ValidateAnalysisQuality
    \/ ValidateFinalRoast

SpecQuality == InitQuality /\ [][NextQuality]_vars

(* C39: each of the three validate_ methods returns, whatever its input    *)
(* and also for a scenario with empty lists, a score of [0, 1], and no     *)
(* division by zero is made.                                               *)
C39_ScoreInUnitInterval ==
    quality.result # Pending =>
      /\ quality.result.outcome = "returned"
      /\ quality.result.score.den > 0
      /\ 0 <= quality.result.score.num
      /\ quality.result.score.num <= quality.result.score.den


----------------------------------------------------------------------------
(* tests/chaos_engine.py: the sessions of a user spike, which call         *)
(* _call_api as those of a batch do, on the same self.session.             *)
(* spike_calls counts the calls they have issued by what self.session was  *)
(* when session.post was reached: an open session, or one that             *)
(* run_chaos_test had closed.                                              *)

NoSpikeCalls == [on_open |-> 0, on_closed |-> 0]

(* _call_api: `if not self.session` is false for a closed session too, so  *)
(* post is called on whatever session there is.                            *)
CallIssued(calls, sess) ==
    IF EnsureSession(sess) = "closed"
      THEN [calls EXCEPT !.on_closed = @ + 1]
      ELSE [calls EXCEPT !.on_open = @ + 1]

(* A session of a spike that is in flight gets to its next _call_api.      *)
(* Nothing in run_chaos_test waits for the spike or cancels it, so this    *)
(* happens wherever the run stands.                                        *)
SpikeCall ==
    /\ chaos_tasks[USER_SPIKE].running + chaos_tasks[USER_SPIKE].draining > 0
    /\ spike_calls.on_open + spike_calls.on_closed < MaxSpikeCalls
    /\ session' = EnsureSession(session)
    /\ spike_calls' = CallIssued(spike_calls, session)
    /\ UNCHANGED <<users_per_minute, target, clock, faults_left, pc, tick,
                   user_tasks, chaos_tasks, results, reports, exc,
                   memory, api, runner, ci, tester, load, validator,
                   quality, client>>

(* Runs in which the calls of a spike's sessions are followed. *)
InitSpike ==
    /\ users_per_minute \in {0, 1}
    /\ target \in {"ok", "down"}
    /\ clock = OpenClock
    /\ faults_left = 0
    /\ InitEngine
    /\ spike_calls = NoSpikeCalls
    /\ memory = "none"
    /\ api = "none"
    /\ runner = "none"
    /\ ci = "none"
    /\ tester = "none"
    /\ load = "none"
    /\ validator = "none"
    /\ quality = "none"
    /\ client = "none"

NextSpike ==
    \/ Tick
    \/ LoopExit
    \/ \E i \in DOMAIN user_tasks : SessionStep(i)
    \/ Merge
    \/ Report
    \/ SpikeCall
    \/ SpikeDrain
    \/ SpikeEnd

SpecSpike == InitSpike /\ [][NextSpike]_vars

(* C35: once run_chaos_test has closed self.session no session issues a    *)
(* call on it: no session of a batch is in flight then, and no session of  *)
(* a user spike that is still running reaches session.post.                *)
C35_NoCallOnClosedSession ==
    /\ spike_calls.on_closed = 0
    /\ session = "closed" =>
          \A i \in DOMAIN user_tasks : ~InFlight(user_tasks[i])


(* C37: a run with users_per_minute = 0 whose ticks sample the metrics     *)
(* without failure raises nothing and returns.                             *)
C37_ZeroUsersReturns ==
    (users_per_minute = 0 /\ tick > 0 /\ results.performance_metrics = tick)
        => (~exc /\ pc # "raised")


----------------------------------------------------------------------------
(* tests/chaos_engine.py: _call_api run by several sessions on one         *)
(* tester.  client is the tester's session attribute, the number of        *)
(* ClientSession objects made for it, the task the event loop is running   *)
(* (0 when every task is suspended or ended), and for every session task   *)
(* where it stands, what `not self.session` gave it, and the calls it has  *)
(* made.                                                                   *)
(*   pc of a task: "ready" before a call of _call_api; "checked" after     *)
(*   the if test; "posting" while it is suspended in session.post;         *)
(*   "done".                                                               *)
(* The tasks are cooperative: the running task keeps the loop until it     *)
(* awaits something that suspends it.                                      *)

NewClient ==
    [session |-> "none", created |-> 0, running |-> 0,
     tasks |-> [i \in 1..MaxClients |->
                  [pc |-> "ready", missing |-> FALSE, calls |-> 0]]]

(* Faulty variant of SuspendsAfterCheck: the session is made by a call     *)
(* that is awaited.                                                        *)
SuspendsAfterCheckAwaited == TRUE

(* Between `if not self.session` and the assignment of the next line       *)
(* there is no await.                                                      *)
SuspendsAfterCheck == FALSE

(* Task i may take a step: it is the running task, or no task is running. *)
MayRun(c, i) == c.running \in {0, i}

(* if not self.session *)
CheckSession(i) ==
    /\ client.tasks[i].pc = "ready"
    /\ MayRun(client, i)
    /\ client' = [client EXCEPT
                     !.tasks[i].pc = "checked",
                     !.tasks[i].missing = (client.session = "none"),
                     !.running = IF SuspendsAfterCheck THEN 0 ELSE i]
    /\ UNCHANGED <<engine, memory, api, runner, ci, tester,
                   load, validator, quality, spike_calls>>

(* self.session = aiohttp.ClientSession() when the test held, then the     *)
(* await of self.session.post, which suspends the task.                    *)
PostRequest(i) ==
    /\ client.tasks[i].pc = "checked"
    /\ MayRun(client, i)
    /\ client' = [client EXCEPT
                     !.session = IF client.tasks[i].missing THEN "open" ELSE @,
                     !.created = IF client.tasks[i].missing THEN @ + 1 ELSE @,
                     !.tasks[i].pc = "posting",
                     !.tasks[i].calls = @ + 1,
                     !.running = 0]
    /\ UNCHANGED <<engine, memory, api, runner, ci, tester,
                   load, validator, quality, spike_calls>>

(* The call of task i returns and the task is resumed: it runs on to its   *)
(* next call of _call_api, or ends.                                        *)
CallReturns(i) ==
    /\ client.tasks[i].pc = "posting"
    /\ client.running = 0
    /\ client' = IF client.tasks[i].calls < MaxCalls
                   THEN [client EXCEPT !.tasks[i].pc = "ready", !.running = i]
                   ELSE [client EXCEPT !.tasks[i].pc = "done"]
    /\ UNCHANGED <<engine, memory, api, runner, ci, tester,
                   load, validator, quality, spike_calls>>

(* run_chaos_test: if self.session: await self.session.close() *)
CloseSession ==
    /\ client.session = "open"
    /\ client.running = 0
    /\ client' = [client EXCEPT !.session = "closed"]
    /\ UNCHANGED <<engine, memory, api, runner, ci, tester,
                   load, validator, quality, spike_calls>>

InitClient ==
    /\ EngineOff
    /\ client = NewClient
    /\ memory = "none"
    /\ api = "none"
    /\ runner = "none"
    /\ ci = "none"
    /\ tester = "none"
    /\ load = "none"
    /\ validator = "none"
    /\ quality = "none"
    /\ spike_calls = "none"

NextClient ==
    \/ \E i \in DOMAIN client.tasks : CheckSession(i)
    \/ \E i \in DOMAIN client.tasks : PostRequest(i)
    \/ \E i \in DOMAIN client.tasks : CallReturns(i)
    \/ CloseSession

SpecClient == InitClient /\ [][NextClient]_vars

(* C36: however the calls of the sessions interleave, at most one          *)
(* ClientSession is made for the tester: none before the first call of     *)
(* _call_api, one from then on.                                            *)
C36_SessionCreatedOnce ==
    /\ client.created <= 1
    /\ client.created = 0 <=> client.session = "none"
    /\ client.created = 0 <=>
          \A i \in DOMAIN client.tasks : client.tasks[i].calls = 0

(* All the tasks are suspended in session.post at once, each in its        *)
(* first call, and one session has been made.                              *)
C36_Witness ==
    /\ \A i \in DOMAIN client.tasks :
          client.tasks[i].pc = "posting" /\ client.tasks[i].calls = 1
    /\ client.created = 1

====
